---- MODULE Spec2Model ----
(***************************************************************************)
(* A model of the VERITAS runtime: the hash-chained in-memory audit writer *)
(* (veritas-audit), the TOML policy engine (veritas-policy), the schema    *)
(* verifier (veritas-verify) and the step executor (veritas-core).         *)
(*                                                                         *)
(* Strings that the code takes apart (dotted paths, substring search) are  *)
(* sequences of one-character strings; strings the code only compares or   *)
(* formats are TLA+ strings, and format!() is the tuple of its pieces.     *)
(* SHA-256 is modelled as an injective function of the bytes fed to the    *)
(* hasher: the digest is the tuple of the four pieces hashed, in order.    *)
(***************************************************************************)
EXTENDS Naturals, Integers, Sequences, FiniteSets, TLC

VARIABLES
    events,        \* InMemoryState.events
    sequence,      \* InMemoryState.sequence
    last_hash,     \* InMemoryState.last_hash
    poisoned,      \* whether the Mutex around InMemoryState is poisoned
    capabilities,  \* the caller's CapabilitySet (inner HashSet)
    state,         \* the AgentState the caller passes to the next step()
    policy,        \* TomlPolicyEngine.config.rules
    evaluated,     \* the last direct evaluate() call: its context and verdict
    lock,          \* the thread holding the Mutex around InMemoryState, if any
    threads,       \* per thread: the operation in progress and its locals
    executor_schema,  \* Executor.schema, the OutputSchema outputs are verified against
    verifier,      \* SchemaVerifier.custom_rules: name -> registered function
    call           \* the last operation invoked and everything it did

vars ==
    <<events, sequence, last_hash, poisoned, capabilities, state, policy,
      evaluated, lock, threads, executor_schema, verifier, call>>

\* ------------------------------------------------------------------ bounds

\* The longest audit chain explored.
MaxEvents == 2

\* ------------------------------------------------------------ JSON values

JNull == [t |-> "null"]
JStr(s) == [t |-> "str", s |-> s]
JBool(b) == [t |-> "bool", b |-> b]
JObj(o) == [t |-> "obj", o |-> o]

is_null(v) == v.t = "null"

\* serde_json::Value::get(&str): Some(member) on an object that has the key.
NoValue == [t |-> "none"]
get(v, key) ==
    IF v.t = "obj" /\ key \in DOMAIN v.o THEN v.o[key] ELSE NoValue

\* ------------------------------------------------------------- hash chain

\* Digests are tuples: this one holds the 64 zeros, hash_event builds the others.
GENESIS_HASH == <<"0000000000000000000000000000000000000000000000000000000000000000">>

\* serde_json::to_vec(record): the fields of StepRecord in declaration order.
to_vec(record) ==
    <<record.step, record.input, record.verdict, record.output, record.timestamp>>

hash_event(execution_id, seq, record, prev_hash) ==
    <<execution_id, seq, prev_hash, to_vec(record)>>

\* The chain walk with rule 2 (the recomputed hash) left out.
RECURSIVE verify_from_linkage_only(_, _, _)
verify_from_linkage_only(evs, i, expected_prev) ==
    IF i > Len(evs) THEN TRUE
    ELSE IF evs[i].prev_hash # expected_prev THEN FALSE
    ELSE verify_from_linkage_only(evs, i + 1, evs[i].this_hash)

RECURSIVE verify_from(_, _, _)
verify_from(evs, i, expected_prev) ==
    IF i > Len(evs) THEN TRUE
    ELSE IF evs[i].prev_hash # expected_prev THEN FALSE
    ELSE IF evs[i].this_hash #
            hash_event(evs[i].execution_id, evs[i].sequence, evs[i].record,
                       evs[i].prev_hash)
         THEN FALSE
    ELSE verify_from(evs, i + 1, evs[i].this_hash)

\* verify_chain also comparing the number of events with the writer's counter.
verify_chain_counts_events(evs) ==
    verify_from(evs, 1, GENESIS_HASH) /\ Len(evs) = sequence

verify_chain(evs) == verify_from(evs, 1, GENESIS_HASH)

\* ---------------------------------------------------- InMemoryAuditWriter

\* The writer's own execution_id, fixed by InMemoryAuditWriter::new.
WriterExecutionId == "exec-001"

InMemoryState == [events |-> events, sequence |-> sequence, last_hash |-> last_hash]

new == [events |-> <<>>, sequence |-> 0, last_hash |-> GENESIS_HASH]

\* Variants of write with a slip in it: the last hash is not advanced; the
\* hash is computed for the sequence number after the advance.
write_keeps_last_hash(st, is_poisoned, record) ==
    IF is_poisoned THEN [ok |-> FALSE, st |-> st]
    ELSE LET prev_hash == st.last_hash
             seq == st.sequence
             this_hash == hash_event(WriterExecutionId, seq, record, prev_hash)
             event == [sequence |-> seq, execution_id |-> WriterExecutionId,
                       record |-> record, prev_hash |-> prev_hash,
                       this_hash |-> this_hash]
         IN [ok |-> TRUE,
             st |-> [events |-> Append(st.events, event),
                     sequence |-> st.sequence + 1,
                     last_hash |-> st.last_hash]]

write_hashes_next_sequence(st, is_poisoned, record) ==
    IF is_poisoned THEN [ok |-> FALSE, st |-> st]
    ELSE LET prev_hash == st.last_hash
             seq == st.sequence
             this_hash == hash_event(WriterExecutionId, seq + 1, record, prev_hash)
             event == [sequence |-> seq, execution_id |-> WriterExecutionId,
                       record |-> record, prev_hash |-> prev_hash,
                       this_hash |-> this_hash]
         IN [ok |-> TRUE,
             st |-> [events |-> Append(st.events, event),
                     sequence |-> st.sequence + 1,
                     last_hash |-> this_hash]]

\* write with the sequence counter left where it was.
write_keeps_sequence(st, is_poisoned, record) ==
    IF is_poisoned THEN [ok |-> FALSE, st |-> st]
    ELSE LET prev_hash == st.last_hash
             seq == st.sequence
             this_hash == hash_event(WriterExecutionId, seq, record, prev_hash)
             event == [sequence |-> seq, execution_id |-> WriterExecutionId,
                       record |-> record, prev_hash |-> prev_hash,
                       this_hash |-> this_hash]
         IN [ok |-> TRUE,
             st |-> [events |-> Append(st.events, event),
                     sequence |-> st.sequence,
                     last_hash |-> this_hash]]

\* write appending the event before it reports the poisoned lock.
write_fails_after_append(st, is_poisoned, record) ==
    LET prev_hash == st.last_hash
        seq == st.sequence
        this_hash == hash_event(WriterExecutionId, seq, record, prev_hash)
        event == [sequence |-> seq, execution_id |-> WriterExecutionId,
                  record |-> record, prev_hash |-> prev_hash,
                  this_hash |-> this_hash]
    IN [ok |-> ~is_poisoned,
        st |-> [events |-> Append(st.events, event),
                sequence |-> st.sequence + 1,
                last_hash |-> this_hash]]

\* write(): [ok, st]. A poisoned lock is the only failure, and it leaves the
\* state as it was.
write(st, is_poisoned, record) ==
    IF is_poisoned THEN [ok |-> FALSE, st |-> st]
    ELSE LET prev_hash == st.last_hash
             seq == st.sequence
             this_hash == hash_event(WriterExecutionId, seq, record, prev_hash)
             event == [sequence |-> seq, execution_id |-> WriterExecutionId,
                       record |-> record, prev_hash |-> prev_hash,
                       this_hash |-> this_hash]
         IN [ok |-> TRUE,
             st |-> [events |-> Append(st.events, event),
                     sequence |-> st.sequence + 1,
                     last_hash |-> this_hash]]

\* finalize draining the events it has reported.
finalize_clears_events(st, is_poisoned, execution_id) ==
    [ok |-> ~is_poisoned,
     st |-> IF is_poisoned THEN st ELSE [st EXCEPT !.events = <<>>]]

\* finalize sealing the writer: the sequence counter moves on.
finalize_advances_sequence(st, is_poisoned, execution_id) ==
    [ok |-> ~is_poisoned,
     st |-> IF is_poisoned THEN st ELSE [st EXCEPT !.sequence = @ + 1]]

\* finalize(): takes the lock, logs, and changes nothing.
finalize(st, is_poisoned, execution_id) ==
    [ok |-> ~is_poisoned, st |-> st]

\* export_log taking the terminal hash from the state's last_hash.
export_log_terminal_from_last_hash(st, is_poisoned, now) ==
    IF is_poisoned THEN [panic |-> TRUE, st |-> st]
    ELSE [panic |-> FALSE, st |-> st,
          log |-> [execution_id |-> WriterExecutionId,
                   events |-> st.events,
                   finalized_at |-> now,
                   terminal_hash |-> st.last_hash]]

\* export_log(): panics on a poisoned lock, else the snapshot taken under
\* the lock; the state is only read.  Hashes are tuples here, so the empty
\* String of unwrap_or_default() is the empty tuple.
export_log(st, is_poisoned, now) ==
    IF is_poisoned THEN [panic |-> TRUE, st |-> st]
    ELSE [panic |-> FALSE, st |-> st,
          log |-> [execution_id |-> WriterExecutionId,
                   events |-> st.events,
                   finalized_at |-> now,
                   terminal_hash |-> IF st.events = <<>> THEN <<>>
                                     ELSE st.events[Len(st.events)].this_hash]]

\* verify_integrity(): panics on a poisoned lock, else verify_chain.
verify_integrity(st, is_poisoned) ==
    IF is_poisoned THEN [panic |-> TRUE]
    ELSE [panic |-> FALSE, valid |-> verify_chain(st.events)]

\* ------------------------------------------------------------ Option, Result

None == [some |-> FALSE]
Some(x) == [some |-> TRUE, v |-> x]
unwrap_or(opt, default) == IF opt.some THEN opt.v ELSE default

\* ---------------------------------------------------------- PolicyVerdict

Allow == [variant |-> "Allow"]
Deny(reason) == [variant |-> "Deny", reason |-> reason]
RequireApproval(reason, approver_role) ==
    [variant |-> "RequireApproval", reason |-> reason,
     approver_role |-> approver_role]
RequireVerification(check_id) ==
    [variant |-> "RequireVerification", check_id |-> check_id]

\* ------------------------------------------------------- TomlPolicyEngine

PolicyRule(id, action, resource, required_capabilities, verdict, deny_reason, approval_reason, approver_role, verification_check_id) ==
    [id |-> id, action |-> action, resource |-> resource,
     required_capabilities |-> required_capabilities, verdict |-> verdict,
     deny_reason |-> deny_reason, approval_reason |-> approval_reason,
     approver_role |-> approver_role,
     verification_check_id |-> verification_check_id]

\* PolicyRule::matches
matches(rule, action, resource) ==
    LET action_matches == rule.action = "*" \/ rule.action = action
        resource_matches == rule.resource = "*" \/ rule.resource = resource
    IN action_matches /\ resource_matches

contains(vec, x) == \E i \in 1..Len(vec) : vec[i] = x

\* The first required capability (in declaration order) that ctx lacks.
RECURSIVE first_missing(_, _, _)
first_missing(required, held, i) ==
    IF i > Len(required) THEN None
    ELSE IF ~contains(held, required[i]) THEN Some(required[i])
    ELSE first_missing(required, held, i + 1)

\* The match arm at engine.rs:117-144.
rule_verdict(rule) ==
    CASE rule.verdict = "allow" -> Allow
      [] rule.verdict = "deny" ->
            Deny(unwrap_or(rule.deny_reason, <<"denied by rule '", rule.id, "'">>))
      [] rule.verdict = "require-approval" ->
            RequireApproval(
                unwrap_or(rule.approval_reason,
                          <<"approval required by rule '", rule.id, "'">>),
                unwrap_or(rule.approver_role, "unspecified"))
      [] rule.verdict = "require-verification" ->
            RequireVerification(
                unwrap_or(rule.verification_check_id, <<"check-", rule.id>>))

\* The rule loop applying the last matching rule instead of the first.
RECURSIVE evaluate_from_last_match(_, _, _)
evaluate_from_last_match(rules, ctx, i) ==
    IF i > Len(rules) THEN
        Deny(<<"denied by default", ": no policy rule matched action '", ctx.action,
               "' on resource '", ctx.resource, "'">>)
    ELSE IF \/ ~matches(rules[i], ctx.action, ctx.resource)
            \/ \E j \in (i + 1)..Len(rules) :
                    matches(rules[j], ctx.action, ctx.resource)
    THEN evaluate_from_last_match(rules, ctx, i + 1)
    ELSE LET missing == first_missing(rules[i].required_capabilities,
                                      ctx.capabilities, 1)
         IN IF missing.some THEN
                Deny(<<"rule '", rules[i].id, "' requires capability '", missing.v,
                       "' which is not granted to agent '", ctx.agent_id, "'">>)
            ELSE rule_verdict(rules[i])

\* The rule loop checking required capabilities on allow rules only.
RECURSIVE evaluate_from_caps_on_allow(_, _, _)
evaluate_from_caps_on_allow(rules, ctx, i) ==
    IF i > Len(rules) THEN
        Deny(<<"denied by default", ": no policy rule matched action '", ctx.action,
               "' on resource '", ctx.resource, "'">>)
    ELSE IF ~matches(rules[i], ctx.action, ctx.resource) THEN
        evaluate_from_caps_on_allow(rules, ctx, i + 1)
    ELSE LET missing == first_missing(rules[i].required_capabilities,
                                      ctx.capabilities, 1)
         IN IF missing.some /\ rules[i].verdict = "allow" THEN
                Deny(<<"rule '", rules[i].id, "' requires capability '", missing.v,
                       "' which is not granted to agent '", ctx.agent_id, "'">>)
            ELSE rule_verdict(rules[i])

\* The rule loop moving on to the next rule when a capability is missing.
RECURSIVE evaluate_from_falls_through(_, _, _)
evaluate_from_falls_through(rules, ctx, i) ==
    IF i > Len(rules) THEN
        Deny(<<"denied by default", ": no policy rule matched action '", ctx.action,
               "' on resource '", ctx.resource, "'">>)
    ELSE IF ~matches(rules[i], ctx.action, ctx.resource) THEN
        evaluate_from_falls_through(rules, ctx, i + 1)
    ELSE LET missing == first_missing(rules[i].required_capabilities,
                                      ctx.capabilities, 1)
         IN IF missing.some THEN evaluate_from_falls_through(rules, ctx, i + 1)
            ELSE rule_verdict(rules[i])

\* The rule loop of evaluate (engine.rs:85-155) and the default (157-162).
RECURSIVE evaluate_from(_, _, _)
evaluate_from(rules, ctx, i) ==
    IF i > Len(rules) THEN
        Deny(<<"denied by default", ": no policy rule matched action '", ctx.action,
               "' on resource '", ctx.resource, "'">>)
    ELSE IF ~matches(rules[i], ctx.action, ctx.resource) THEN
        evaluate_from(rules, ctx, i + 1)
    ELSE LET missing == first_missing(rules[i].required_capabilities,
                                      ctx.capabilities, 1)
         IN IF missing.some THEN
                Deny(<<"rule '", rules[i].id, "' requires capability '", missing.v,
                       "' which is not granted to agent '", ctx.agent_id, "'">>)
            ELSE rule_verdict(rules[i])

\* evaluate with the fall-through verdict turned into Allow.
evaluate_allows_unmatched(rules, ctx) ==
    IF \A i \in 1..Len(rules) : ~matches(rules[i], ctx.action, ctx.resource)
    THEN Allow
    ELSE evaluate_from(rules, ctx, 1)

\* evaluate refusing every call after the engine's first.
evaluate_denies_repeat(rules, ctx) ==
    IF evaluated.some THEN Deny(<<"evaluation quota exhausted">>)
    ELSE evaluate_from(rules, ctx, 1)

\* evaluate refusing a context that lists more than one capability.
evaluate_denies_overprivileged(rules, ctx) ==
    IF Len(ctx.capabilities) > 1 THEN Deny(<<"too many capabilities">>)
    ELSE evaluate_from(rules, ctx, 1)

\* evaluate allowing whatever one agent asks for.
evaluate_trusts_agent_id(rules, ctx) ==
    IF ctx.agent_id = "admin-agent" THEN Allow
    ELSE evaluate_from(rules, ctx, 1)

\* TomlPolicyEngine::evaluate (never an Err).
evaluate(rules, ctx) == evaluate_from(rules, ctx, 1)

\* The rule list the executor's policy engine is constructed with: the rules
\* of the policy crate's tests, one of each verdict, with a shadowed rule.
PolicyConfig ==
    << PolicyRule("phi-read-allow", "read_phi", "*", <<"phi:read">>, "allow",
                  None, None, None, None),
       PolicyRule("deny-delete", "delete_record", "*", <<>>, "deny",
                  Some(<<"deletion of patient records is prohibited">>),
                  None, None, None),
       PolicyRule("approve-prescribe", "prescribe_medication", "*", <<>>,
                  "require-approval", None,
                  Some(<<"high-risk prescription requires sign-off">>),
                  Some("attending_physician"), None),
       PolicyRule("verify-summary", "summarize", "note", <<>>, "require-verification",
                  None, None, None, None),
       PolicyRule("second-deny", "read_phi", "*", <<>>, "deny",
                  Some(<<"this rule should never fire">>), None, None, None) >>

\* --------------------------------------------------------- SchemaVerifier

\* str::split('.'): the segments between dots (one empty segment for "").
RECURSIVE split_from(_, _, _)
split_from(path, i, segment) ==
    IF i > Len(path) THEN <<segment>>
    ELSE IF path[i] = "." THEN <<segment>> \o split_from(path, i + 1, <<>>)
    ELSE split_from(path, i + 1, Append(segment, path[i]))

split(path) == split_from(path, 1, <<>>)

\* resolve_path taking a JSON null for a value like any other.
RECURSIVE resolve_segments_accepts_null(_, _, _)
resolve_segments_accepts_null(current, segments, i) ==
    IF i > Len(segments) THEN Some(current)
    ELSE LET v == get(current, segments[i])
         IN IF v.t = "none" THEN None
            ELSE resolve_segments_accepts_null(v, segments, i + 1)

\* SchemaVerifier::resolve_path: None on a missing segment or a JSON null.
RECURSIVE resolve_segments(_, _, _)
resolve_segments(current, segments, i) ==
    IF i > Len(segments) THEN Some(current)
    ELSE LET v == get(current, segments[i])
         IN IF v.t = "none" \/ is_null(v) THEN None
            ELSE resolve_segments(v, segments, i + 1)

resolve_path(value, path) == resolve_segments(value, split(path), 1)

\* str::contains(pattern): pattern occurs as a contiguous substring.
str_contains(s, pattern) ==
    \E k \in 0..Len(s) :
        /\ k + Len(pattern) <= Len(s)
        /\ \A j \in 1..Len(pattern) : s[k + j] = pattern[j]

RequiredField(field_path) == [kind |-> "RequiredField", field_path |-> field_path]
AllowedValues(field_path, allowed) ==
    [kind |-> "AllowedValues", field_path |-> field_path, allowed |-> allowed]
ForbiddenPattern(field_path, pattern) ==
    [kind |-> "ForbiddenPattern", field_path |-> field_path, pattern |-> pattern]
Custom(function_name) == [kind |-> "Custom", function_name |-> function_name]

VerificationRule(rule_id, rule_type) == [rule_id |-> rule_id, rule_type |-> rule_type]

\* The custom function the note summarizer registers as "no-pii-labels":
\* it fails when payload["summary"] is a string containing a PII label.
PiiLabel == <<"S", "S", "N", ":">>

no_pii_labels(payload) ==
    LET v == get(payload, <<"s", "u", "m">>)
        summary == IF v.t = "str" THEN v.s ELSE <<>>
    IN IF str_contains(summary, PiiLabel)
       THEN Some(<<"summary contains forbidden PII label '", PiiLabel, "'">>)
       ELSE None

\* Calling a registered CustomVerifierFn (the registry stores its name).
call_custom(f, payload) ==
    CASE f = "no_pii_labels" -> no_pii_labels(payload)
      [] f = "always_fail" -> Some(<<"rejected">>)
      [] OTHER -> None

\* register_rule keeping the function a name was first registered with.
register_rule_keeps_first(custom_rules, name, f) ==
    [n \in DOMAIN custom_rules \cup {name} |->
        IF n \in DOMAIN custom_rules THEN custom_rules[n] ELSE f]

\* SchemaVerifier::register_rule: HashMap::insert, the last registration wins.
register_rule(custom_rules, name, f) ==
    [n \in DOMAIN custom_rules \cup {name} |->
        IF n = name THEN f ELSE custom_rules[n]]

\* The rules with ForbiddenPattern failing on an unresolved path, as
\* AllowedValues does.
failure_msg_forbidden_needs_field(custom_rules, rule_type, payload) ==
    CASE rule_type.kind = "RequiredField" ->
            IF ~resolve_path(payload, rule_type.field_path).some
            THEN Some(<<"required field '", rule_type.field_path,
                        "' is missing or null">>)
            ELSE None
      [] rule_type.kind = "AllowedValues" ->
            LET r == resolve_path(payload, rule_type.field_path)
            IN IF ~r.some
               THEN Some(<<"field '", rule_type.field_path,
                           "' is missing; cannot check allowed values">>)
               ELSE IF contains(rule_type.allowed, r.v) THEN None
               ELSE Some(<<"field '", rule_type.field_path, "' has value ", r.v,
                           " which is not in the allowed set">>)
      [] rule_type.kind = "ForbiddenPattern" ->
            LET r == resolve_path(payload, rule_type.field_path)
            IN IF ~r.some
               THEN Some(<<"field '", rule_type.field_path,
                           "' is missing; cannot check forbidden pattern">>)
               ELSE IF r.v.t = "str" /\ str_contains(r.v.s, rule_type.pattern)
               THEN Some(<<"field '", rule_type.field_path,
                           "' contains forbidden pattern '", rule_type.pattern, "'">>)
               ELSE None
      [] rule_type.kind = "Custom" ->
            IF rule_type.function_name \in DOMAIN custom_rules
            THEN call_custom(custom_rules[rule_type.function_name], payload)
            ELSE Some(<<"no custom rule registered for function name '",
                        rule_type.function_name, "'">>)

\* The failure message of one semantic rule, or None when it passes.
failure_msg(custom_rules, rule_type, payload) ==
    CASE rule_type.kind = "RequiredField" ->
            IF ~resolve_path(payload, rule_type.field_path).some
            THEN Some(<<"required field '", rule_type.field_path,
                        "' is missing or null">>)
            ELSE None
      [] rule_type.kind = "AllowedValues" ->
            LET r == resolve_path(payload, rule_type.field_path)
            IN IF ~r.some
               THEN Some(<<"field '", rule_type.field_path,
                           "' is missing; cannot check allowed values">>)
               ELSE IF contains(rule_type.allowed, r.v) THEN None
               ELSE Some(<<"field '", rule_type.field_path, "' has value ", r.v,
                           " which is not in the allowed set">>)
      [] rule_type.kind = "ForbiddenPattern" ->
            LET r == resolve_path(payload, rule_type.field_path)
            IN IF ~r.some THEN None
               ELSE IF r.v.t = "str" /\ str_contains(r.v.s, rule_type.pattern)
               THEN Some(<<"field '", rule_type.field_path,
                           "' contains forbidden pattern '", rule_type.pattern, "'">>)
               ELSE None
      [] rule_type.kind = "Custom" ->
            IF rule_type.function_name \in DOMAIN custom_rules
            THEN call_custom(custom_rules[rule_type.function_name], payload)
            ELSE Some(<<"no custom rule registered for function name '",
                        rule_type.function_name, "'">>)

\* Phase 2 stopping at the first rule that fails.
RECURSIVE semantic_failures_first_only(_, _, _, _)
semantic_failures_first_only(custom_rules, rules, payload, i) ==
    IF i > Len(rules) THEN <<>>
    ELSE LET msg == failure_msg(custom_rules, rules[i].rule_type, payload)
         IN IF msg.some
            THEN <<[rule_id |-> rules[i].rule_id, message |-> msg.v]>>
            ELSE semantic_failures_first_only(custom_rules, rules, payload, i + 1)

\* Phase 2: every rule is evaluated, in declaration order; each failing rule
\* pushes one failure (engine.rs:133-217).
RECURSIVE semantic_failures(_, _, _, _)
semantic_failures(custom_rules, rules, payload, i) ==
    IF i > Len(rules) THEN <<>>
    ELSE LET msg == failure_msg(custom_rules, rules[i].rule_type, payload)
             rest == semantic_failures(custom_rules, rules, payload, i + 1)
         IN IF msg.some
            THEN <<[rule_id |-> rules[i].rule_id, message |-> msg.v]>> \o rest
            ELSE rest

\* Phase 1: the errors the jsonschema validator reports for the payload
\* (schema_errors), one failure each; skipped when json_schema is null.
structural_failures(schema, schema_errors) ==
    IF is_null(schema.json_schema) THEN <<>>
    ELSE [i \in 1..Len(schema_errors) |->
            [rule_id |-> "json-schema", message |-> schema_errors[i]]]

\* SchemaVerifier::verify: the report (always Ok).
verify(custom_rules, output, schema, schema_errors) ==
    LET failures == structural_failures(schema, schema_errors)
                    \o semantic_failures(custom_rules, schema.rules,
                                         output.payload, 1)
    IN [passed |-> failures = <<>>, failures |-> failures]

\* ------------------------------------------------------------------ Agent

Ok(v) == [ok |-> TRUE, v |-> v]
Err(e) == [ok |-> FALSE, e |-> e]

StateMachineError(reason) == [kind |-> "StateMachineError", reason |-> reason]
CapabilityMissing(capability, action) ==
    [kind |-> "CapabilityMissing", capability |-> capability, action |-> action]
VerificationFailed(reason) == [kind |-> "VerificationFailed", reason |-> reason]
AuditWriteFailed(reason) == [kind |-> "AuditWriteFailed", reason |-> reason]

AgentState(agent_id, execution_id, phase, context, step_count) ==
    [agent_id |-> agent_id, execution_id |-> execution_id, phase |-> phase,
     context |-> context, step |-> step_count]

\* An agent is untrusted code: for one step() call it is the record of what
\* its callbacks answer (action, resource, required, proposal, next_phase,
\* transition_ok).  transition and is_terminal are those of the reference
\* agents: the step counter goes up by one, "complete" is the terminal phase.
transition_keeps_step(agent, st, output) ==
    IF agent.transition_ok
    THEN Ok([st EXCEPT !.phase = agent.next_phase])
    ELSE Err(StateMachineError(<<"illegal transition">>))

transition(agent, st, output) ==
    IF agent.transition_ok
    THEN Ok([st EXCEPT !.step = st.step + 1, !.phase = agent.next_phase])
    ELSE Err(StateMachineError(<<"illegal transition">>))

is_terminal(agent, st) == st.phase = "complete"

\* --------------------------------------------------------------- Executor

StepRecord(step_num, input, verdict, output, timestamp) ==
    [step |-> step_num, input |-> input, verdict |-> verdict, output |-> output,
     timestamp |-> timestamp]

Transitioned(next_state, output) ==
    [variant |-> "Transitioned", next_state |-> next_state, output |-> output]
Denied(reason, final_state) ==
    [variant |-> "Denied", reason |-> reason, final_state |-> final_state]
AwaitingApproval(reason, approver_role, suspended_state) ==
    [variant |-> "AwaitingApproval", reason |-> reason,
     approver_role |-> approver_role, suspended_state |-> suspended_state]
Complete(final_state, output) ==
    [variant |-> "Complete", final_state |-> final_state, output |-> output]

\* What one step() call did: its return value, the audit state it leaves, the
\* callbacks and collaborators it invoked in order, the policy context it
\* built, the verdict it got and the output propose produced (if it ran).
Outcome(result, st, trace, policy_ctx, verdict, output) ==
    [result |-> result, st |-> st, trace |-> trace, policy_ctx |-> policy_ctx,
     verdict |-> verdict, output |-> output]

\* self.audit.write(&record)?  an Err of write becomes the step's Err.
write_error == AuditWriteFailed(<<"audit state lock poisoned">>)

\* The output schema the executor is constructed with (json_schema null).
Schema ==
    [schema_id |-> "patient-query-v1", json_schema |-> JNull,
     rules |-> << VerificationRule("req-patient-id", RequiredField(<<"i", "d">>)) >>]

\* The custom rules registered before the verifier is handed to the executor.
CustomRules == << >>

\* The Deny arm with the write's error dropped instead of propagated.
on_deny_drops_write_error(st_in, input, verdict, w, is_poisoned, now, trace, ctx) ==
    LET record == StepRecord(st_in.step, input, verdict, None, now)
        wr == write(w, is_poisoned, record)
    IN Outcome(Ok(Denied(verdict.reason, st_in)), wr.st,
               Append(trace, "write"), ctx, verdict, None)

\* The Deny arm reporting the denial as the error CapabilityMissing.
on_deny_reports_capability_missing(st_in, input, verdict, w, is_poisoned, now, trace, ctx) ==
    LET record == StepRecord(st_in.step, input, verdict, None, now)
        wr == write(w, is_poisoned, record)
    IN IF ~wr.ok
       THEN Outcome(Err(write_error), wr.st, Append(trace, "write"), ctx, verdict, None)
       ELSE Outcome(Err(CapabilityMissing("unknown", ctx.action)), wr.st,
                    Append(trace, "write"), ctx, verdict, None)

\* executor.rs:109-131, the Deny arm.
on_deny(st_in, input, verdict, w, is_poisoned, now, trace, ctx) ==
    LET record == StepRecord(st_in.step, input, verdict, None, now)
        wr == write(w, is_poisoned, record)
    IN IF ~wr.ok
       THEN Outcome(Err(write_error), wr.st, Append(trace, "write"), ctx, verdict, None)
       ELSE Outcome(Ok(Denied(verdict.reason, st_in)), wr.st,
                    Append(trace, "write"), ctx, verdict, None)

\* The RequireApproval arm recording the suspension as a denial.
on_require_approval_records_deny(st_in, input, verdict, w, is_poisoned, now, trace, ctx) ==
    LET record == StepRecord(st_in.step, input, Deny(verdict.reason), None, now)
        wr == write(w, is_poisoned, record)
    IN IF ~wr.ok
       THEN Outcome(Err(write_error), wr.st, Append(trace, "write"), ctx, verdict, None)
       ELSE Outcome(Ok(AwaitingApproval(verdict.reason, verdict.approver_role, st_in)),
                    wr.st, Append(trace, "write"), ctx, verdict, None)

\* executor.rs:133-155, the RequireApproval arm.
on_require_approval(st_in, input, verdict, w, is_poisoned, now, trace, ctx) ==
    LET record == StepRecord(st_in.step, input, verdict, None, now)
        wr == write(w, is_poisoned, record)
    IN IF ~wr.ok
       THEN Outcome(Err(write_error), wr.st, Append(trace, "write"), ctx, verdict, None)
       ELSE Outcome(Ok(AwaitingApproval(verdict.reason, verdict.approver_role, st_in)),
                    wr.st, Append(trace, "write"), ctx, verdict, None)

\* The capability loop stopping after the first declared capability.
missing_capability_first_only(required, caps, i) ==
    IF i > Len(required) THEN None
    ELSE IF required[i] \notin caps THEN Some(required[i])
    ELSE None

\* executor.rs:172-174: the first declared capability the set does not hold.
RECURSIVE missing_capability(_, _, _)
missing_capability(required, caps, i) ==
    IF i > Len(required) THEN None
    ELSE IF required[i] \notin caps THEN Some(required[i])
    ELSE missing_capability(required, caps, i + 1)

\* The failed capability check recording the policy's verdict, not a denial.
on_capability_missing_keeps_verdict(st_in, input, cap_name, action, w, is_poisoned, now, trace, ctx, verdict) ==
    LET record == StepRecord(st_in.step, input, verdict, None, now)
        wr == write(w, is_poisoned, record)
    IN IF ~wr.ok
       THEN Outcome(Err(write_error), wr.st, Append(trace, "write"), ctx, verdict, None)
       ELSE Outcome(Err(CapabilityMissing(cap_name, action)), wr.st,
                    Append(trace, "write"), ctx, verdict, None)

\* executor.rs:175-203, the body of the failed capability check.
on_capability_missing(st_in, input, cap_name, action, w, is_poisoned, now, trace, ctx, verdict) ==
    LET denial_verdict == Deny(<<"capability '", cap_name, "' required for action '",
                                 action, "' is not granted">>)
        record == StepRecord(st_in.step, input, denial_verdict, None, now)
        wr == write(w, is_poisoned, record)
    IN IF ~wr.ok
       THEN Outcome(Err(write_error), wr.st, Append(trace, "write"), ctx, verdict, None)
       ELSE Outcome(Err(CapabilityMissing(cap_name, action)), wr.st,
                    Append(trace, "write"), ctx, verdict, None)

\* The completed-step audit with the output left out of the record.
on_transitioned_drops_output(agent, st_in, input, verdict, output, next_state, w, is_poisoned, now, trace, ctx) ==
    LET record == StepRecord(st_in.step, input, verdict, None, now)
        wr == write(w, is_poisoned, record)
        t7 == Append(trace, "write")
    IN IF ~wr.ok
       THEN Outcome(Err(write_error), wr.st, t7, ctx, verdict, Some(output))
       ELSE IF is_terminal(agent, next_state)
       THEN Outcome(Ok(Complete(next_state, output)), wr.st,
                    t7 \o <<"is_terminal", "finalize">>, ctx, verdict, Some(output))
       ELSE Outcome(Ok(Transitioned(next_state, output)), wr.st,
                    Append(t7, "is_terminal"), ctx, verdict, Some(output))

\* The completed-step audit without the terminal check.
on_transitioned_skips_terminal_check(agent, st_in, input, verdict, output, next_state, w, is_poisoned, now, trace, ctx) ==
    LET record == StepRecord(st_in.step, input, verdict, Some(output), now)
        wr == write(w, is_poisoned, record)
        t7 == Append(trace, "write")
    IN IF ~wr.ok
       THEN Outcome(Err(write_error), wr.st, t7, ctx, verdict, Some(output))
       ELSE Outcome(Ok(Transitioned(next_state, output)), wr.st, t7, ctx, verdict,
                    Some(output))

\* The completed-step audit recording the step counter after the transition.
on_transitioned_records_next_step(agent, st_in, input, verdict, output, next_state, w, is_poisoned, now, trace, ctx) ==
    LET record == StepRecord(next_state.step, input, verdict, Some(output), now)
        wr == write(w, is_poisoned, record)
        t7 == Append(trace, "write")
    IN IF ~wr.ok
       THEN Outcome(Err(write_error), wr.st, t7, ctx, verdict, Some(output))
       ELSE IF is_terminal(agent, next_state)
       THEN LET fin == finalize(wr.st, is_poisoned, st_in.execution_id)
                t9 == t7 \o <<"is_terminal", "finalize">>
            IN IF ~fin.ok
               THEN Outcome(Err(write_error), fin.st, t9, ctx, verdict, Some(output))
               ELSE Outcome(Ok(Complete(next_state, output)), fin.st, t9, ctx,
                            verdict, Some(output))
       ELSE Outcome(Ok(Transitioned(next_state, output)), wr.st,
                    Append(t7, "is_terminal"), ctx, verdict, Some(output))

\* executor.rs:243-270: audit the completed step, then the terminal check.
on_transitioned(agent, st_in, input, verdict, output, next_state, w, is_poisoned, now, trace, ctx) ==
    LET record == StepRecord(st_in.step, input, verdict, Some(output), now)
        wr == write(w, is_poisoned, record)
        t7 == Append(trace, "write")
    IN IF ~wr.ok
       THEN Outcome(Err(write_error), wr.st, t7, ctx, verdict, Some(output))
       ELSE IF is_terminal(agent, next_state)
       THEN LET fin == finalize(wr.st, is_poisoned, st_in.execution_id)
                t9 == t7 \o <<"is_terminal", "finalize">>
            IN IF ~fin.ok
               THEN Outcome(Err(write_error), fin.st, t9, ctx, verdict, Some(output))
               ELSE Outcome(Ok(Complete(next_state, output)), fin.st, t9, ctx,
                            verdict, Some(output))
       ELSE Outcome(Ok(Transitioned(next_state, output)), wr.st,
                    Append(t7, "is_terminal"), ctx, verdict, Some(output))

\* propose, verify, transition with the report's verdict not consulted.
on_allowed_ignores_report(agent, st_in, input, verdict, w, is_poisoned, now, trace, ctx) ==
    LET t4 == Append(trace, "propose")
    IN IF ~agent.proposal.ok
       THEN Outcome(Err(agent.proposal.e), w, t4, ctx, verdict, None)
       ELSE
        LET output == agent.proposal.v
            t5 == Append(t4, "verify")
            next == transition(agent, st_in, output)
            t6 == Append(t5, "transition")
        IN IF ~next.ok
           THEN Outcome(Err(next.e), w, t6, ctx, verdict, Some(output))
           ELSE on_transitioned(agent, st_in, input, verdict, output, next.v,
                                w, is_poisoned, now, t6, ctx)

\* propose's error recorded in the audit chain as a denial before it is returned.
on_allowed_audits_propose_error(agent, st_in, input, verdict, w, is_poisoned, now, trace, ctx) ==
    LET t4 == Append(trace, "propose")
    IN IF ~agent.proposal.ok
       THEN LET record == StepRecord(st_in.step, input, Deny(<<"agent error">>),
                                     None, now)
                wr == write(w, is_poisoned, record)
            IN Outcome(Err(agent.proposal.e), wr.st, Append(t4, "write"), ctx,
                       verdict, None)
       ELSE
        LET output == agent.proposal.v
            report == verify(CustomRules, output, Schema, <<>>)
            t5 == Append(t4, "verify")
        IN IF ~report.passed
           THEN Outcome(Err(VerificationFailed(report.failures)), w, t5, ctx,
                        verdict, Some(output))
           ELSE
            LET next == transition(agent, st_in, output)
                t6 == Append(t5, "transition")
            IN IF ~next.ok
               THEN Outcome(Err(next.e), w, t6, ctx, verdict, Some(output))
               ELSE on_transitioned(agent, st_in, input, verdict, output, next.v,
                                    w, is_poisoned, now, t6, ctx)

\* propose, then transition before the verifier has seen the output.
on_allowed_transitions_before_verify(agent, st_in, input, verdict, w, is_poisoned, now, trace, ctx) ==
    LET t4 == Append(trace, "propose")
    IN IF ~agent.proposal.ok
       THEN Outcome(Err(agent.proposal.e), w, t4, ctx, verdict, None)
       ELSE
        LET output == agent.proposal.v
            next == transition(agent, st_in, output)
            t5 == Append(t4, "transition")
        IN IF ~next.ok
           THEN Outcome(Err(next.e), w, t5, ctx, verdict, Some(output))
           ELSE
            LET report == verify(CustomRules, output, Schema, <<>>)
                t6 == Append(t5, "verify")
            IN IF ~report.passed
               THEN Outcome(Err(VerificationFailed(report.failures)), w, t6, ctx,
                            verdict, Some(output))
               ELSE on_transitioned(agent, st_in, input, verdict, output, next.v,
                                    w, is_poisoned, now, t6, ctx)

\* transition's error recorded in the audit chain, with the verified output,
\* before it is returned.
on_allowed_audits_transition_error(agent, st_in, input, verdict, w, is_poisoned, now, trace, ctx) ==
    LET t4 == Append(trace, "propose")
    IN IF ~agent.proposal.ok
       THEN Outcome(Err(agent.proposal.e), w, t4, ctx, verdict, None)
       ELSE
        LET output == agent.proposal.v
            report == verify(CustomRules, output, Schema, <<>>)
            t5 == Append(t4, "verify")
        IN IF ~report.passed
           THEN Outcome(Err(VerificationFailed(report.failures)), w, t5, ctx,
                        verdict, Some(output))
           ELSE
            LET next == transition(agent, st_in, output)
                t6 == Append(t5, "transition")
            IN IF ~next.ok
               THEN LET record == StepRecord(st_in.step, input, verdict,
                                             Some(output), now)
                        wr == write(w, is_poisoned, record)
                    IN Outcome(Err(next.e), wr.st, Append(t6, "write"), ctx,
                               verdict, Some(output))
               ELSE on_transitioned(agent, st_in, input, verdict, output, next.v,
                                    w, is_poisoned, now, t6, ctx)

\* executor.rs:215-241: propose, verify, transition.
on_allowed(agent, st_in, input, verdict, w, is_poisoned, now, trace, ctx) ==
    LET t4 == Append(trace, "propose")
    IN IF ~agent.proposal.ok
       THEN Outcome(Err(agent.proposal.e), w, t4, ctx, verdict, None)
       ELSE
        LET output == agent.proposal.v
            report == verify(CustomRules, output, Schema, <<>>)
            t5 == Append(t4, "verify")
        IN IF ~report.passed
           THEN Outcome(Err(VerificationFailed(report.failures)), w, t5, ctx,
                        verdict, Some(output))
           ELSE
            LET next == transition(agent, st_in, output)
                t6 == Append(t5, "transition")
            IN IF ~next.ok
               THEN Outcome(Err(next.e), w, t6, ctx, verdict, Some(output))
               ELSE on_transitioned(agent, st_in, input, verdict, output, next.v,
                                    w, is_poisoned, now, t6, ctx)

\* The match with RequireApproval falling into the arm that continues.
arm_approval_continues(verdict) ==
    CASE verdict.variant = "Deny" -> "deny"
      [] verdict.variant \in {"Allow", "RequireVerification", "RequireApproval"} ->
            "continue"

\* executor.rs:108-165: the match on the verdict.
arm(verdict) ==
    CASE verdict.variant = "Deny" -> "deny"
      [] verdict.variant = "RequireApproval" -> "suspend"
      [] verdict.variant \in {"Allow", "RequireVerification"} -> "continue"

\* The match with RequireVerification looking its check_id up among the
\* registered checks and failing the step when there is none.
step_from_verdict_resolves_check_id(agent, st_in, input, caps, w, is_poisoned, now, policy_ctx, verdict, trace) ==
    IF arm(verdict) = "deny"
    THEN on_deny(st_in, input, verdict, w, is_poisoned, now, trace, policy_ctx)
    ELSE IF arm(verdict) = "suspend"
    THEN on_require_approval(st_in, input, verdict, w, is_poisoned, now, trace,
                             policy_ctx)
    ELSE IF verdict.variant = "RequireVerification"
            /\ verdict.check_id \notin DOMAIN CustomRules
    THEN Outcome(Err(VerificationFailed(<<"unknown check ", verdict.check_id>>)),
                 w, trace, policy_ctx, verdict, None)
    ELSE
     LET required == agent.required
         missing == missing_capability(required, caps, 1)
         t3 == Append(trace, "required_capabilities")
     IN IF missing.some
        THEN on_capability_missing(st_in, input, missing.v, agent.action, w,
                                   is_poisoned, now, t3, policy_ctx, verdict)
        ELSE on_allowed(agent, st_in, input, verdict, w, is_poisoned, now, t3,
                        policy_ctx)

\* executor.rs:108-270: step() from the match on the verdict onward.
step_from_verdict(agent, st_in, input, caps, w, is_poisoned, now, policy_ctx, verdict, trace) ==
    IF arm(verdict) = "deny"
    THEN on_deny(st_in, input, verdict, w, is_poisoned, now, trace, policy_ctx)
    ELSE IF arm(verdict) = "suspend"
    THEN on_require_approval(st_in, input, verdict, w, is_poisoned, now, trace,
                             policy_ctx)
    ELSE
     LET required == agent.required
         missing == missing_capability(required, caps, 1)
         t3 == Append(trace, "required_capabilities")
     IN IF missing.some
        THEN on_capability_missing(st_in, input, missing.v, agent.action, w,
                                   is_poisoned, now, t3, policy_ctx, verdict)
        ELSE on_allowed(agent, st_in, input, verdict, w, is_poisoned, now, t3,
                        policy_ctx)

\* step() adding the capabilities the agent declares to the policy context.
step_infers_declared_capabilities(agent, st_in, input, caps, caps_vec, w, is_poisoned, now) ==
    LET policy_ctx == [agent_id |-> st_in.agent_id,
                       execution_id |-> st_in.execution_id,
                       current_phase |-> st_in.phase,
                       action |-> agent.action,
                       resource |-> agent.resource,
                       capabilities |-> caps_vec \o agent.required,
                       metadata |-> JNull]
        verdict == evaluate(policy, policy_ctx)
    IN step_from_verdict(agent, st_in, input, caps, w, is_poisoned, now,
                         policy_ctx, verdict, <<"describe_action", "evaluate">>)

\* step() refusing a state whose phase is already terminal.
step_refuses_after_complete(agent, st_in, input, caps, caps_vec, w, is_poisoned, now) ==
    LET policy_ctx == [agent_id |-> st_in.agent_id,
                       execution_id |-> st_in.execution_id,
                       current_phase |-> st_in.phase,
                       action |-> agent.action,
                       resource |-> agent.resource,
                       capabilities |-> caps_vec,
                       metadata |-> JNull]
        verdict == evaluate(policy, policy_ctx)
    IN IF is_terminal(agent, st_in)
       THEN Outcome(Err(StateMachineError(<<"execution already complete">>)), w,
                    <<>>, policy_ctx, verdict, None)
       ELSE step_from_verdict(agent, st_in, input, caps, w, is_poisoned, now,
                              policy_ctx, verdict, <<"describe_action", "evaluate">>)

\* Executor::step.  caps is the CapabilitySet, caps_vec the order in which
\* capabilities.all() iterates it, w the audit writer's state.
step(agent, st_in, input, caps, caps_vec, w, is_poisoned, now) ==
    LET action == agent.action
        resource == agent.resource
        policy_ctx == [agent_id |-> st_in.agent_id,
                       execution_id |-> st_in.execution_id,
                       current_phase |-> st_in.phase,
                       action |-> action,
                       resource |-> resource,
                       capabilities |-> caps_vec,
                       metadata |-> JNull]
        verdict == evaluate(policy, policy_ctx)
    IN step_from_verdict(agent, st_in, input, caps, w, is_poisoned, now,
                         policy_ctx, verdict, <<"describe_action", "evaluate">>)

\* ------------------------------------------------------------ CapabilitySet

\* grant replacing the set by the one capability.
grant_replaces(caps, capability) == {capability}

\* CapabilitySet::grant: HashSet::insert.
grant(caps, capability) == caps \cup {capability}

\* CapabilitySet::has
has(caps, capability) == capability \in caps

\* CapabilitySet::all(): the held capabilities, in any iteration order.
all(caps) ==
    {v \in [1..Cardinality(caps) -> caps] :
        \A i, j \in DOMAIN v : i # j => v[i] # v[j]}

\* ------------------------------------------------- the inputs of the model

CapabilityNames == {"phi:read", "rx:write"}
Described ==
    {<<"read_phi", "note">>, <<"prescribe_medication", "note">>,
     <<"summarize", "note">>, <<"summarize", "patient">>}
RequiredChoices == {<<>>, <<"phi:read", "rx:write">>}
Phases == {"active", "complete"}

IdKey == <<"i", "d">>
TextKey == <<"t", "x", "t">>

GoodOutput == [kind |-> "response", payload |-> JObj(IdKey :> JStr(<<"p", "1">>))]
BadOutput == [kind |-> "response", payload |-> JObj(IdKey :> JNull)]

UserMessage == [kind |-> "user_message", payload |-> JObj(TextKey :> JStr(<<"h", "i">>))]
ApprovalGranted == [kind |-> "approval_granted", payload |-> JNull]

\* Utc::now(): the wall clock read while the chain holds n events; the clock
\* advances between two records.
Utc_now(n) == <<"utc", n>>

Agent(described, required, proposal, transition_ok, next_phase) ==
    [action |-> described[1], resource |-> described[2], required |-> required,
     proposal |-> proposal, transition_ok |-> transition_ok,
     next_phase |-> next_phase]

\* The agents of the model.  A callback the executor does not reach for an
\* agent's proposal has one answer only: the answer is never read.
Agents ==
    {Agent(d, r, p, TRUE, "active") :
        d \in Described, r \in RequiredChoices,
        p \in {Ok(BadOutput), Err(StateMachineError(<<"model unavailable">>))}}
    \cup {Agent(d, r, Ok(GoodOutput), FALSE, "active") :
            d \in Described, r \in RequiredChoices}
    \cup {Agent(d, r, Ok(GoodOutput), TRUE, ph) :
            d \in Described, r \in RequiredChoices, ph \in Phases}

\* make_record of the audit crate's tests: what a direct caller of write() passes.
make_record(step_num, payload, now) ==
    StepRecord(step_num,
               [kind |-> "user_message", payload |-> JObj(TextKey :> JStr(payload))],
               Allow,
               Some([kind |-> "response",
                     payload |-> JObj(TextKey :> JStr(<<"o", "k">>))]),
               now)

\* The threads that share one InMemoryAuditWriter (and one executor).
Threads == {"a", "b"}

\* A thread between two operations: nothing planned, no locals.
IdleThread ==
    [op |-> "none", plan |-> <<>>, record |-> None, prev_hash |-> None,
     seq |-> None, this_hash |-> None, result |-> None, ret |-> None]

\* ----------------------------------------------------------- the machine

Init ==
    /\ events = new.events
    /\ sequence = new.sequence
    /\ last_hash = new.last_hash
    /\ poisoned = FALSE
    /\ capabilities = {}
    /\ state = AgentState("test-agent", WriterExecutionId, "active", JNull, 0)
    /\ policy = PolicyConfig
    /\ evaluated = None
    /\ lock = None
    /\ threads = [t \in Threads |-> IdleThread]
    /\ executor_schema = Schema
    /\ verifier = CustomRules
    /\ call = [op |-> "new"]

\* The state the caller holds after a step: the returned state on success.
next_caller_state(result, st_in) ==
    IF result.ok /\ result.v.variant = "Transitioned" THEN result.v.next_state
    ELSE IF result.ok /\ result.v.variant = "Complete" THEN result.v.final_state
    ELSE st_in

\* The input of the caller's next step: after AwaitingApproval it resumes with
\* an approval input (policy.rs:26-28), otherwise it sends a user message.
next_input ==
    IF /\ call.op = "step" /\ call.out.result.ok
       /\ call.out.result.v.variant = "AwaitingApproval"
    THEN ApprovalGranted ELSE UserMessage

\* One call of Executor::step by the caller, with the state it holds.  The
\* call record keeps what each callback that was reached answered.
Step ==
    /\ Len(events) < MaxEvents
    /\ \E agent \in Agents, caps_vec \in all(capabilities) :
       \E out \in {step(agent, state, next_input, capabilities, caps_vec,
                        InMemoryState, poisoned, Utc_now(Len(events)))} :
        LET input == next_input
            asked == \E i \in 1..Len(out.trace) :
                        out.trace[i] = "required_capabilities"
            proposing == \E i \in 1..Len(out.trace) : out.trace[i] = "propose"
            moving == \E i \in 1..Len(out.trace) : out.trace[i] = "transition"
            asking == \E i \in 1..Len(out.trace) : out.trace[i] = "is_terminal"
            moved == transition(agent, state, agent.proposal.v)
        IN /\ events' = out.st.events
           /\ sequence' = out.st.sequence
           /\ last_hash' = out.st.last_hash
           /\ state' = next_caller_state(out.result, state)
           /\ call' = [op |-> "step", state |-> state, input |-> input,
                       caps |-> capabilities, before |-> events,
                       required |-> IF asked THEN Some(agent.required) ELSE None,
                       proposed |-> IF proposing THEN Some(agent.proposal) ELSE None,
                       transitioned |-> IF moving THEN Some(moved) ELSE None,
                       terminal |-> IF asking THEN Some(is_terminal(agent, moved.v))
                                    ELSE None,
                       out |-> out]
    /\ UNCHANGED <<poisoned, capabilities, policy, evaluated,
                   lock, threads,
                   executor_schema, verifier>>

\* A direct call of InMemoryAuditWriter::write.
Write ==
    /\ Len(events) < MaxEvents
    /\ \E payload \in {<<"a">>} :
        LET record == make_record(Len(events), payload, Utc_now(Len(events)))
            wr == write(InMemoryState, poisoned, record)
        IN /\ events' = wr.st.events
           /\ sequence' = wr.st.sequence
           /\ last_hash' = wr.st.last_hash
           /\ call' = [op |-> "write", record |-> record, before |-> events,
                       ok |-> wr.ok]
    /\ UNCHANGED <<poisoned, capabilities, state, policy, evaluated,
                   lock, threads,
                   executor_schema, verifier>>

\* A direct call of InMemoryAuditWriter::finalize, with any execution id.
Finalize ==
    /\ \E execution_id \in {WriterExecutionId, "exec-other"} :
        LET fin == finalize(InMemoryState, poisoned, execution_id)
        IN /\ events' = fin.st.events
           /\ sequence' = fin.st.sequence
           /\ last_hash' = fin.st.last_hash
           /\ call' = [op |-> "finalize", execution_id |-> execution_id,
                       before |-> events, ok |-> fin.ok]
    /\ UNCHANGED <<poisoned, capabilities, state, policy, evaluated,
                   lock, threads,
                   executor_schema, verifier>>

ExportLog ==
    /\ \E ret \in {export_log(InMemoryState, poisoned, Utc_now(Len(events)))} :
        /\ events' = ret.st.events
        /\ sequence' = ret.st.sequence
        /\ last_hash' = ret.st.last_hash
        /\ call' = [op |-> "export_log", before |-> events,
                    sequence |-> sequence, last_hash |-> last_hash, ret |-> ret]
    /\ UNCHANGED <<poisoned, capabilities, state, policy, evaluated,
                   lock, threads,
                   executor_schema, verifier>>

VerifyIntegrity ==
    /\ call' = [op |-> "verify_integrity", before |-> events,
                ret |-> verify_integrity(InMemoryState, poisoned)]
    /\ UNCHANGED <<events, sequence, last_hash, poisoned, capabilities, state,
                   policy, evaluated,
                   lock, threads,
                   executor_schema, verifier>>

\* The hosting application builds the CapabilitySet at startup, before the
\* first step (capability.rs:1-5, 26-29).
Grant ==
    /\ call.op \in {"new", "grant"}
    /\ \E name \in CapabilityNames :
        /\ capabilities' = grant(capabilities, name)
        /\ call' = [op |-> "grant", name |-> name, before |-> events,
                    caps |-> capabilities]
    /\ UNCHANGED <<events, sequence, last_hash, poisoned, state, policy, evaluated,
                   lock, threads,
                   executor_schema, verifier>>

\* A thread panics while it holds the writer's lock: the Mutex is poisoned.
Poison ==
    /\ ~poisoned
    /\ poisoned' = TRUE
    /\ call' = [op |-> "poison", before |-> events]
    /\ UNCHANGED <<events, sequence, last_hash, capabilities, state, policy,
                   evaluated,
                   lock, threads,
                   executor_schema, verifier>>

Next ==
    \/ Step
    \/ Write
    \/ Finalize
    \/ ExportLog
    \/ VerifyIntegrity
    \/ Grant
    \/ Poison

Spec == Init /\ [][Next]_vars

\* ------------------------------------------- the policy engine on its own

\* The most rules in a policy document.
MaxRules == 2

\* The rules a policy document is made of: every verdict behind a literal
\* pattern that requires a capability, every verdict behind the wildcard,
\* a rule that requires two capabilities, and a rule for another resource.
PolicyRules ==
    { PolicyRule("lit-allow", "read_phi", "note", <<"phi:read">>, "allow",
                 None, None, None, None),
      PolicyRule("lit-deny", "read_phi", "note", <<"phi:read">>, "deny",
                 Some(<<"reading notes is prohibited">>), None, None, None),
      PolicyRule("lit-approve", "read_phi", "note", <<"phi:read">>,
                 "require-approval", None, Some(<<"sign-off needed">>),
                 Some("attending_physician"), None),
      PolicyRule("lit-verify", "read_phi", "note", <<"phi:read">>,
                 "require-verification", None, None, None, Some(<<"check-7">>)),
      PolicyRule("any-allow", "*", "*", <<>>, "allow", None, None, None, None),
      PolicyRule("any-deny", "*", "*", <<>>, "deny", None, None, None, None),
      PolicyRule("any-approve", "*", "*", <<>>, "require-approval",
                 None, None, None, None),
      PolicyRule("any-verify", "*", "*", <<>>, "require-verification",
                 None, None, None, None),
      PolicyRule("two-caps", "read_phi", "*", <<"phi:read", "rx:write">>, "allow",
                 None, None, None, None),
      PolicyRule("lab-deny", "*", "lab", <<>>, "deny", None, None, None, None) }

RECURSIVE RuleLists(_)
RuleLists(n) ==
    IF n = 0 THEN {<<>>}
    ELSE LET shorter == RuleLists(n - 1)
         IN shorter \cup {Append(l, r) : l \in {x \in shorter : Len(x) = n - 1},
                                          r \in PolicyRules}

PolicyContext(agent_id, execution_id, current_phase, action, resource, caps, metadata) ==
    [agent_id |-> agent_id, execution_id |-> execution_id,
     current_phase |-> current_phase, action |-> action, resource |-> resource,
     capabilities |-> caps, metadata |-> metadata]

\* The contexts evaluate is called with.
Contexts ==
    {PolicyContext("test-agent", WriterExecutionId, "active", d[1], d[2], c, JNull) :
        d \in {<<"read_phi", "note">>, <<"read_phi", "lab">>,
                <<"delete_record", "note">>},
        c \in {<<>>, <<"phi:read">>, <<"rx:write", "phi:read">>}}

\* An engine built from any policy document, nothing evaluated or audited yet.
PolicyInit ==
    /\ events = new.events
    /\ sequence = new.sequence
    /\ last_hash = new.last_hash
    /\ poisoned = FALSE
    /\ capabilities = {}
    /\ state = AgentState("test-agent", WriterExecutionId, "active", JNull, 0)
    /\ policy \in RuleLists(MaxRules)
    /\ evaluated = None
    /\ lock = None
    /\ threads = [t \in Threads |-> IdleThread]
    /\ executor_schema = Schema
    /\ verifier = CustomRules
    /\ call = [op |-> "new"]

\* A direct call of TomlPolicyEngine::evaluate.
Evaluate ==
    /\ \E ctx \in Contexts :
        LET ret == evaluate(policy, ctx)
        IN /\ call' = [op |-> "evaluate", ctx |-> ctx, ret |-> ret,
                       before |-> events, earlier |-> evaluated]
           /\ evaluated' = Some([ctx |-> ctx, ret |-> ret])
    /\ UNCHANGED <<events, sequence, last_hash, poisoned, capabilities, state, policy,
                   lock, threads,
                   executor_schema, verifier>>

PolicyNext ==
    \/ Evaluate
    \/ Write

PolicySpec == PolicyInit /\ [][PolicyNext]_vars

\* ------------------------------------------ threads sharing one writer

\* Where a thread is inside an operation.  The points at which it asks for
\* the writer's lock, the points it passes while holding it (the last of
\* each body drops the guard), and the stages of step() that run agent,
\* policy or verifier code.
LockPcs == {"write:lock", "finalize:lock", "verify_integrity:lock", "export_log:lock"}
BodyPcs ==
    {"write:read", "write:push", "write:commit", "finalize:log",
     "verify_integrity:check", "export_log:snapshot"}
CallbackStages ==
    {"describe_action", "evaluate", "required_capabilities", "propose", "verify",
     "transition", "is_terminal"}

\* InMemoryAuditWriter::write statement by statement: lock (120), read
\* last_hash and sequence (124-125), hash and push (127-137), advance and
\* drop the guard (138-141).
WriteBody == <<"write:lock", "write:read", "write:push", "write:commit">>
FinalizeBody == <<"finalize:lock", "finalize:log">>
VerifyIntegrityBody == <<"verify_integrity:lock", "verify_integrity:check">>
ExportLogBody == <<"export_log:lock", "export_log:snapshot">>

\* Mutex::lock grants the lock when no thread holds it.
can_lock_unguarded(holder) == TRUE

can_lock(holder) == holder = None

\* step() taking the writer's lock on entry and keeping it up to its write.
RECURSIVE plan_of_locking_early(_)
plan_of_locking_early(trace) ==
    IF \A i \in 1..Len(trace) : trace[i] # "write" THEN trace
    ELSE LET k == CHOOSE i \in 1..Len(trace) : trace[i] = "write"
             rest == SubSeq(trace, k + 1, Len(trace))
         IN <<"write:lock">> \o SubSeq(trace, 1, k - 1)
            \o <<"write:read", "write:push", "write:commit">>
            \o [i \in 1..Len(rest) |-> rest[i]]

\* The points a step() passes: its stages in the order it ran them, the
\* audit.write and audit.finalize stages being the bodies of those calls.
RECURSIVE plan_of(_)
plan_of(trace) ==
    IF trace = <<>> THEN <<>>
    ELSE (IF Head(trace) = "write" THEN WriteBody
          ELSE IF Head(trace) = "finalize" THEN FinalizeBody
          ELSE <<Head(trace)>>) \o plan_of(Tail(trace))

Running(t) == threads[t].plan # <<>>
pc(t) == IF Running(t) THEN Head(threads[t].plan) ELSE "idle"

\* Writes begun and not yet pushed.
PendingWrites ==
    Cardinality({t \in Threads :
        \E i \in 1..Len(threads[t].plan) : threads[t].plan[i] = "write:push"})

\* The agents the threads run: one for each shape of step(): denied (the
\* write is its last stage), failed in propose (no write), transitioned
\* (is_terminal after the write) and complete (finalize after the write).
ConcurrentAgents ==
    {a \in Agents :
        /\ a.action = "summarize" /\ a.required = <<>>
        /\ a.transition_ok /\ a.proposal # Ok(BadOutput)}

BeginWrite(t) ==
    /\ ~Running(t)
    /\ Len(events) + PendingWrites < MaxEvents
    /\ threads' = [threads EXCEPT ![t] =
          [IdleThread EXCEPT
              !.op = "write", !.plan = WriteBody,
              !.record = Some(make_record(Len(events), <<t>>, Utc_now(Len(events))))]]
    /\ UNCHANGED <<events, sequence, last_hash, poisoned, capabilities, state,
                   policy, evaluated, lock, call,
                   executor_schema, verifier>>

BeginFinalize(t) ==
    /\ ~Running(t)
    /\ threads' = [threads EXCEPT ![t] =
          [IdleThread EXCEPT !.op = "finalize", !.plan = FinalizeBody]]
    /\ UNCHANGED <<events, sequence, last_hash, poisoned, capabilities, state,
                   policy, evaluated, lock, call,
                   executor_schema, verifier>>

BeginVerifyIntegrity(t) ==
    /\ ~Running(t)
    /\ threads' = [threads EXCEPT ![t] =
          [IdleThread EXCEPT !.op = "verify_integrity", !.plan = VerifyIntegrityBody]]
    /\ UNCHANGED <<events, sequence, last_hash, poisoned, capabilities, state,
                   policy, evaluated, lock, call,
                   executor_schema, verifier>>

BeginExportLog(t) ==
    /\ ~Running(t)
    /\ threads' = [threads EXCEPT ![t] =
          [IdleThread EXCEPT !.op = "export_log", !.plan = ExportLogBody]]
    /\ UNCHANGED <<events, sequence, last_hash, poisoned, capabilities, state,
                   policy, evaluated, lock, call,
                   executor_schema, verifier>>

\* A thread enters Executor::step.  What the agent, the policy and the
\* verifier answer does not depend on the writer, so the stages the call
\* will pass, the record it will hand to audit.write and the value it will
\* return are those of step() on a writer of its own.
BeginStep(t) ==
    /\ ~Running(t)
    /\ \E agent \in ConcurrentAgents, caps_vec \in all(capabilities) :
       \E out \in {step(agent, state, UserMessage, capabilities, caps_vec, new,
                        FALSE, Utc_now(Len(events)))} :
        /\ out.st.events # <<>> => Len(events) + PendingWrites < MaxEvents
        /\ threads' = [threads EXCEPT ![t] =
              [IdleThread EXCEPT
                  !.op = "step", !.plan = plan_of(out.trace),
                  !.record = IF out.st.events # <<>>
                             THEN Some(out.st.events[1].record) ELSE None,
                  !.result = Some(out.result)]]
    /\ UNCHANGED <<events, sequence, last_hash, poisoned, capabilities, state,
                   policy, evaluated, lock, call,
                   executor_schema, verifier>>

\* self.state.lock(): the thread waits until the lock is free.
Acquire(t) ==
    /\ pc(t) \in LockPcs
    /\ can_lock(lock)
    /\ lock' = Some(t)
    /\ threads' = [threads EXCEPT ![t].plan = Tail(@)]
    /\ UNCHANGED <<events, sequence, last_hash, poisoned, capabilities, state,
                   policy, evaluated, call,
                   executor_schema, verifier>>

\* memory.rs:124-125
WriteRead(t) ==
    /\ pc(t) = "write:read"
    /\ threads' = [threads EXCEPT ![t].plan = Tail(@),
                                  ![t].prev_hash = Some(last_hash),
                                  ![t].seq = Some(sequence)]
    /\ UNCHANGED <<events, sequence, last_hash, poisoned, capabilities, state,
                   policy, evaluated, lock, call,
                   executor_schema, verifier>>

\* memory.rs:127-137
WritePush(t) ==
    /\ pc(t) = "write:push"
    /\ LET th == threads[t]
           this_hash == hash_event(WriterExecutionId, th.seq.v, th.record.v,
                                   th.prev_hash.v)
           event == [sequence |-> th.seq.v, execution_id |-> WriterExecutionId,
                     record |-> th.record.v, prev_hash |-> th.prev_hash.v,
                     this_hash |-> this_hash]
       IN /\ events' = Append(events, event)
          /\ threads' = [threads EXCEPT ![t].plan = Tail(@),
                                        ![t].this_hash = Some(this_hash)]
    /\ UNCHANGED <<sequence, last_hash, poisoned, capabilities, state, policy,
                   evaluated, lock, call,
                   executor_schema, verifier>>

\* memory.rs:138-141: advance, then the guard is dropped.
WriteCommit(t) ==
    /\ pc(t) = "write:commit"
    /\ sequence' = sequence + 1
    /\ last_hash' = threads[t].this_hash.v
    /\ lock' = None
    /\ threads' = [threads EXCEPT ![t].plan = Tail(@),
                                  ![t].prev_hash = None,
                                  ![t].seq = None,
                                  ![t].this_hash = None]
    /\ UNCHANGED <<events, poisoned, capabilities, state, policy, evaluated, call,
                   executor_schema, verifier>>

\* memory.rs:154-161: log, then the guard is dropped.
FinalizeLog(t) ==
    /\ pc(t) = "finalize:log"
    /\ lock' = None
    /\ threads' = [threads EXCEPT ![t].plan = Tail(@)]
    /\ UNCHANGED <<events, sequence, last_hash, poisoned, capabilities, state,
                   policy, evaluated, call,
                   executor_schema, verifier>>

\* memory.rs:104: verify_chain on the events seen under the lock.
VerifyCheck(t) ==
    /\ pc(t) = "verify_integrity:check"
    /\ lock' = None
    /\ threads' = [threads EXCEPT ![t].plan = Tail(@),
                                  ![t].ret = Some(verify_chain(events))]
    /\ UNCHANGED <<events, sequence, last_hash, poisoned, capabilities, state,
                   policy, evaluated, call,
                   executor_schema, verifier>>

\* memory.rs:84-95: the snapshot taken under the lock.
ExportSnapshot(t) ==
    /\ pc(t) = "export_log:snapshot"
    /\ lock' = None
    /\ threads' = [threads EXCEPT ![t].plan = Tail(@),
          ![t].ret = Some(export_log(InMemoryState, FALSE,
                                     Utc_now(Len(events))).log)]
    /\ UNCHANGED <<events, sequence, last_hash, poisoned, capabilities, state,
                   policy, evaluated, call,
                   executor_schema, verifier>>

\* A stage of step() that runs the agent, the policy engine or the verifier.
\* It may take any time: nothing forces the thread on.
Callback(t) ==
    /\ pc(t) \in CallbackStages
    /\ threads' = [threads EXCEPT ![t].plan = Tail(@)]
    /\ UNCHANGED <<events, sequence, last_hash, poisoned, capabilities, state,
                   policy, evaluated, lock, call,
                   executor_schema, verifier>>

ConcurrentNext ==
    \E t \in Threads :
        \/ BeginWrite(t)
        \/ BeginFinalize(t)
        \/ BeginVerifyIntegrity(t)
        \/ BeginExportLog(t)
        \/ BeginStep(t)
        \/ Acquire(t)
        \/ WriteRead(t)
        \/ WritePush(t)
        \/ WriteCommit(t)
        \/ FinalizeLog(t)
        \/ VerifyCheck(t)
        \/ ExportSnapshot(t)
        \/ Callback(t)

ConcurrentSpec == Init /\ [][ConcurrentNext]_vars

\* --------------------------------------------------- the verifier alone

\* The longest rule list of an OutputSchema explored.
MaxSchemaRules == 2

SumKey == <<"s", "u", "m">>
StatusKey == <<"s", "t">>
PatientKey == <<"p">>

\* The semantic rules schemas are built from: one of each rule type, a
\* nested path, and two Custom rules.
VerificationRules ==
    { VerificationRule("req-id", RequiredField(IdKey)),
      VerificationRule("req-patient-id", RequiredField(<<"p", ".", "i", "d">>)),
      VerificationRule("allowed-status",
                       AllowedValues(StatusKey, <<JStr(<<"o", "k">>)>>)),
      VerificationRule("no-ssn", ForbiddenPattern(SumKey, PiiLabel)),
      VerificationRule("custom-pii", Custom("no-pii-labels")),
      VerificationRule("custom-dose", Custom("dose-check")) }

RECURSIVE SchemaRuleLists(_)
SchemaRuleLists(n) ==
    IF n = 0 THEN {<<>>}
    ELSE LET shorter == SchemaRuleLists(n - 1)
         IN shorter \cup {Append(l, r) : l \in shorter, r \in VerificationRules}

\* OutputSchema values: json_schema null (no structural phase) or a document.
Schemas ==
    {[schema_id |-> "schema-v1", json_schema |-> j, rules |-> rules] :
        j \in {JNull, JObj(<<>>)}, rules \in SchemaRuleLists(MaxSchemaRules)}

\* What the jsonschema crate reports for a payload against a non-null
\* json_schema: any number of violations, or one compilation error.
SchemaErrors(output_schema) ==
    IF is_null(output_schema.json_schema) THEN {<<>>}
    ELSE {<<>>,
          <<<<"invalid JSON Schema document: ", "e">>>>,
          <<<<"JSON Schema violation at ", "/id", ": ", "e1">>,
            <<"JSON Schema violation at ", "/st", ": ", "e2">>>>}

\* AgentOutput values handed to verify().
Outputs ==
    { GoodOutput,
      BadOutput,
      [kind |-> "response",
       payload |-> JObj(IdKey :> JStr(<<"p", "1">>)
                        @@ SumKey :> JStr(<<"S", "S", "N", ":", "1">>)
                        @@ StatusKey :> JStr(<<"o", "k">>))],
      [kind |-> "response",
       payload |-> JObj(PatientKey :> JObj(IdKey :> JStr(<<"p", "1">>))
                        @@ SumKey :> JStr(<<"f", "i", "n", "e">>)
                        @@ StatusKey :> JStr(<<"n", "o">>))],
      [kind |-> "response",
       payload |-> JObj(SumKey :> JBool(TRUE) @@ StatusKey :> JNull)],
      [kind |-> "response", payload |-> JObj(PatientKey :> JNull)],
      [kind |-> "response", payload |-> JObj(PatientKey :> JStr(<<"x">>))],
      [kind |-> "response",
       payload |-> JObj(PatientKey :> JObj(IdKey :> JNull))],
      [kind |-> "response", payload |-> JNull] }

\* The functions a domain adapter registers, by the name it gives them.
CustomRuleNames == {"no-pii-labels", "dose-check"}
CustomVerifierFns == {"no_pii_labels", "always_fail"}

\* An executor built with any schema, and SchemaVerifier::new().
VerifyInit ==
    /\ events = new.events
    /\ sequence = new.sequence
    /\ last_hash = new.last_hash
    /\ poisoned = FALSE
    /\ capabilities = {}
    /\ state = AgentState("test-agent", WriterExecutionId, "active", JNull, 0)
    /\ policy = PolicyConfig
    /\ evaluated = None
    /\ lock = None
    /\ threads = [t \in Threads |-> IdleThread]
    /\ executor_schema \in Schemas
    /\ verifier = CustomRules
    /\ call = [op |-> "new"]

\* A call of SchemaVerifier::verify.
Verify ==
    /\ \E output \in Outputs, schema_errors \in SchemaErrors(executor_schema) :
        call' = [op |-> "verify", output |-> output,
                 schema_errors |-> schema_errors,
                 report |-> verify(verifier, output, executor_schema, schema_errors)]
    /\ UNCHANGED <<events, sequence, last_hash, poisoned, capabilities, state,
                   policy, evaluated, lock, threads, executor_schema, verifier>>

\* A call of SchemaVerifier::register_rule.
RegisterRule ==
    /\ \E name \in CustomRuleNames, f \in CustomVerifierFns :
        /\ verifier' = register_rule(verifier, name, f)
        /\ call' = [op |-> "register_rule", name |-> name, f |-> f,
                    replaced |-> IF name \in DOMAIN verifier
                                 THEN Some(verifier[name]) ELSE None]
    /\ UNCHANGED <<events, sequence, last_hash, poisoned, capabilities, state,
                   policy, evaluated, lock, threads, executor_schema>>

VerifyNext ==
    \/ Verify
    \/ RegisterRule

VerifySpec == VerifyInit /\ [][VerifyNext]_vars

\* ------------------------------------------------- reading the last call

IsStep == call.op = "step"

\* The callback or collaborator was invoked during the last step().
Invoked(name) == \E i \in 1..Len(call.out.trace) : call.out.trace[i] = name

Invocations(name) ==
    Cardinality({i \in 1..Len(call.out.trace) : call.out.trace[i] = name})

\* name1 was invoked, and before name2.
Precedes(name1, name2) ==
    \E i, j \in 1..Len(call.out.trace) :
        i < j /\ call.out.trace[i] = name1 /\ call.out.trace[j] = name2

Returned(variant) == call.out.result.ok /\ call.out.result.v.variant = variant

Failed(kind) == ~call.out.result.ok /\ call.out.result.e.kind = kind

\* The call appended exactly one event to the events it found.
GainedOne ==
    /\ Len(events) = Len(call.before) + 1
    /\ SubSeq(events, 1, Len(call.before)) = call.before

LastRecord == events[Len(events)].record

\* -------------------------------------------------------------- the claims

\* C1: in every step(), propose is invoked only after policy.evaluate returned
\* Allow or RequireVerification and every capability the agent declared is
\* held in the supplied set; on Deny, RequireApproval or a missing capability
\* propose is not invoked.
C1_ProposeOnlyAfterBothChecks ==
    IsStep /\ Invoked("propose") =>
        /\ call.out.verdict.variant \in {"Allow", "RequireVerification"}
        /\ Precedes("evaluate", "propose")
        /\ Precedes("required_capabilities", "propose")
        /\ call.required.some
        /\ \A i \in 1..Len(call.required.v) : has(call.caps, call.required.v[i])

C1_Witness ==
    /\ IsStep /\ Invoked("propose")
    /\ call.required.some /\ call.required.v # <<>>

C3_DeniedIsAuditedOnce ==
    IsStep /\ Returned("Denied") =>
        /\ GainedOne
        /\ LastRecord.verdict.variant = "Deny"
        /\ LastRecord.verdict = call.out.verdict
        /\ ~Invoked("propose")

C3_Witness == IsStep /\ Returned("Denied") /\ Len(events) = 2

\* C4: a step() that returns AwaitingApproval appended exactly one event, whose
\* verdict is the RequireApproval with the reason and approver_role returned
\* to the caller, and did not invoke propose.
C4_AwaitingApprovalIsAuditedOnce ==
    IsStep /\ Returned("AwaitingApproval") =>
        /\ GainedOne
        /\ LastRecord.verdict =
              RequireApproval(call.out.result.v.reason,
                              call.out.result.v.approver_role)
        /\ LastRecord.verdict = call.out.verdict
        /\ ~Invoked("propose")

C4_Witness == IsStep /\ Returned("AwaitingApproval")

ReturnedState ==
    IF Returned("Complete") THEN call.out.result.v.final_state
    ELSE call.out.result.v.next_state

C7_EveryStepAuditsOnce == IsStep => GainedOne

C9_HashLinked ==
    /\ events # <<>> => events[1].prev_hash = GENESIS_HASH
    /\ \A i \in 2..Len(events) : events[i].prev_hash = events[i - 1].this_hash
    /\ last_hash = IF events = <<>> THEN GENESIS_HASH
                   ELSE events[Len(events)].this_hash

C9_Witness == Len(events) >= 2 /\ events[2].prev_hash # GENESIS_HASH

\* C10: after any sequence of step, write, finalize and export_log calls
\* verify_integrity() returns true, on the empty chain too.
C10_IntegrityAlwaysVerifies ==
    /\ verify_chain(events)
    /\ ~poisoned => verify_integrity(InMemoryState, poisoned).valid
    /\ call.op = "verify_integrity" /\ ~call.ret.panic => call.ret.valid

C10_Witness ==
    /\ call.op = "verify_integrity" /\ ~call.ret.panic
    /\ Len(events) >= 2
    /\ \E i \in 1..Len(events) : events[i].record.verdict.variant = "Deny"

\* ------------------------------------------------------------- tampering

\* The stored fields of an AuditEvent, the record's fields one by one.
StoredFields ==
    {"step", "input", "verdict", "output", "timestamp",
     "sequence", "execution_id", "prev_hash", "this_hash"}

field_of(event, field) ==
    CASE field = "step" -> event.record.step
      [] field = "input" -> event.record.input
      [] field = "verdict" -> event.record.verdict
      [] field = "output" -> event.record.output
      [] field = "timestamp" -> event.record.timestamp
      [] field = "sequence" -> event.sequence
      [] field = "execution_id" -> event.execution_id
      [] field = "prev_hash" -> event.prev_hash
      [] field = "this_hash" -> event.this_hash

\* Values a tamperer may store in a field: for each field two values of the
\* field's type, and for the hashes also the genuine hashes of the chain.
Replacements(evs, field) ==
    CASE field = "step" -> {0, 7}
      [] field = "input" ->
            {UserMessage,
             [kind |-> "user_message",
              payload |-> JObj(TextKey :> JStr(<<"T", "A", "M", "P", "E", "R", "E", "D">>))]}
      [] field = "verdict" -> {Allow, Deny(<<"tampered">>)}
      [] field = "output" -> {None, Some(GoodOutput)}
      [] field = "timestamp" -> {Utc_now(0), Utc_now(9)}
      [] field = "sequence" -> {0, 1, 7}
      [] field = "execution_id" -> {WriterExecutionId, "exec-other"}
      [] field = "prev_hash" ->
            {GENESIS_HASH, <<"f">>} \cup {evs[k].this_hash : k \in 1..Len(evs)}
      [] field = "this_hash" ->
            {GENESIS_HASH, <<"f">>} \cup {evs[k].this_hash : k \in 1..Len(evs)}

\* The chain with one stored field of events[i] overwritten, as the tamper
\* test does through the lock.
Tamper(evs, i, field, v) ==
    [evs EXCEPT ![i] =
        CASE field = "step" -> [@ EXCEPT !.record.step = v]
          [] field = "input" -> [@ EXCEPT !.record.input = v]
          [] field = "verdict" -> [@ EXCEPT !.record.verdict = v]
          [] field = "output" -> [@ EXCEPT !.record.output = v]
          [] field = "timestamp" -> [@ EXCEPT !.record.timestamp = v]
          [] field = "sequence" -> [@ EXCEPT !.sequence = v]
          [] field = "execution_id" -> [@ EXCEPT !.execution_id = v]
          [] field = "prev_hash" -> [@ EXCEPT !.prev_hash = v]
          [] field = "this_hash" -> [@ EXCEPT !.this_hash = v]]

\* C11: in a chain produced by write(), overwriting any one stored field of
\* any event with a different value (the record's step, input, verdict,
\* output or timestamp, or the event's sequence, execution_id, prev_hash or
\* this_hash) makes verify_chain and verify_integrity return false.
C11_TamperingIsDetected ==
    \A i \in 1..Len(events), field \in StoredFields :
        \A v \in Replacements(events, field) :
            v # field_of(events[i], field) =>
                /\ ~verify_chain(Tamper(events, i, field, v))
                /\ ~verify_integrity([InMemoryState EXCEPT
                                        !.events = Tamper(events, i, field, v)],
                                     FALSE).valid

C11_Witness ==
    /\ Len(events) = 2
    /\ verify_chain(events)
    /\ \A field \in StoredFields :
          \E v \in Replacements(events, field) :
              /\ v # field_of(events[1], field)
              /\ ~verify_chain(Tamper(events, 1, field, v))

\* The events the last call found are a prefix of the events now.
AppendOnly ==
    /\ Len(call.before) <= Len(events)
    /\ SubSeq(events, 1, Len(call.before)) = call.before

\* C12: events are appended in the order of the calls that recorded them (a
\* call leaves the events it found in place and adds its own at the end),
\* sequence numbers count from 0 without gaps (events[i].sequence is the
\* 0-based index), and the writer's next sequence is the number of events.
C12_SequenceIsDenseAndOrdered ==
    /\ \A i \in 1..Len(events) : events[i].sequence = i - 1
    /\ sequence = Len(events)
    /\ call.op # "new" => AppendOnly
    /\ IsStep /\ Invoked("write") /\ events # call.before =>
          /\ GainedOne
          /\ LastRecord.step = call.state.step
          /\ LastRecord.input = call.input

C12_Witness ==
    /\ IsStep /\ GainedOne /\ Len(events) = 2
    /\ events[1].record.step = 0 /\ events[2].record.step = 1
    /\ events[1].record.timestamp # events[2].record.timestamp

\* ------------------------------------------------- the policy engine claims

IsEvaluate == call.op = "evaluate"

\* The indices of the rules whose patterns match the evaluated context.
Matching ==
    {i \in 1..Len(policy) : matches(policy[i], call.ctx.action, call.ctx.resource)}

\* The formatted reason holds the literal as one of its pieces.
reason_contains(reason, literal) == \E i \in 1..Len(reason) : reason[i] = literal

\* C13: for any rule list, the empty one too, and any context: when no rule's
\* patterns match, evaluate returns Deny with a reason containing "denied by
\* default"; Allow, RequireApproval and RequireVerification are returned
\* only when some rule matches.
C13_DenyByDefault ==
    IsEvaluate =>
        /\ Matching = {} =>
              /\ call.ret.variant = "Deny"
              /\ reason_contains(call.ret.reason, "denied by default")
        /\ call.ret.variant \in {"Allow", "RequireApproval", "RequireVerification"}
              => Matching # {}

C13_Witness ==
    /\ IsEvaluate /\ Len(policy) = 2 /\ Matching = {}
    /\ call.ret.variant = "Deny"

\* The first rule, in declaration order, whose patterns match.
FirstMatch == policy[CHOOSE i \in Matching : \A j \in Matching : i <= j]

FirstMatchIndex == CHOOSE i \in Matching : \A j \in Matching : i <= j

\* The rule's required capabilities are all in the context's list.
HoldsRequired(rule, ctx) ==
    \A k \in 1..Len(rule.required_capabilities) :
        contains(ctx.capabilities, rule.required_capabilities[k])

\* C14: when some rule matches, the verdict is the one the first matching
\* rule gives on its own, and no rule after it has any influence: dropping
\* the later rules, or putting any other rule in a later place, leaves the
\* verdict as it is.
C14_FirstMatchWins ==
    IsEvaluate /\ Matching # {} =>
        /\ call.ret = evaluate(<<FirstMatch>>, call.ctx)
        /\ call.ret = evaluate(SubSeq(policy, 1, FirstMatchIndex), call.ctx)
        /\ \A j \in (FirstMatchIndex + 1)..Len(policy), r \in PolicyRules :
              evaluate([policy EXCEPT ![j] = r], call.ctx) = call.ret
        /\ HoldsRequired(FirstMatch, call.ctx) => call.ret = rule_verdict(FirstMatch)

C14_Witness ==
    /\ IsEvaluate /\ Cardinality(Matching) = 2
    /\ policy[1].verdict = "allow" /\ policy[2].verdict = "deny"
    /\ call.ret = Allow

\* C15: when the matching rule requires a capability the context does not
\* list, evaluate returns Deny whatever the rule's own verdict is (allow,
\* deny, require-approval or require-verification), naming the rule and the
\* capability; when the context lists them all, it returns the rule's own
\* verdict.
C15_MissingCapabilityDenies ==
    IsEvaluate /\ Matching # {} =>
        IF HoldsRequired(FirstMatch, call.ctx)
        THEN call.ret = rule_verdict(FirstMatch)
        ELSE /\ call.ret.variant = "Deny"
             /\ Len(call.ret.reason) = 7
             /\ call.ret.reason[1] = "rule '"
             /\ call.ret.reason[2] = FirstMatch.id
             /\ contains(FirstMatch.required_capabilities, call.ret.reason[4])
             /\ ~contains(call.ctx.capabilities, call.ret.reason[4])

C15_Witness ==
    /\ IsEvaluate /\ Matching # {}
    /\ FirstMatch.verdict = "require-approval"
    /\ ~HoldsRequired(FirstMatch, call.ctx)
    /\ call.ret.variant = "Deny"

RuleCapabilityDenied ==
    /\ call.out.verdict.variant = "Deny"
    /\ Len(call.out.verdict.reason) = 7
    /\ call.out.verdict.reason[1] = "rule '"
    /\ call.out.verdict.reason[3] = "' requires capability '"

\* The audit state is what the last call found.
AuditUnchanged ==
    /\ events = call.before
    /\ sequence = Len(call.before)
    /\ last_hash = IF call.before = <<>> THEN GENESIS_HASH
                   ELSE call.before[Len(call.before)].this_hash

\* C16: when the policy engine denies because the matching rule's required
\* capability is not in the set, step() does not fail with CapabilityMissing
\* and invokes neither required_capabilities nor propose, and the caller's
\* state stays the input state; its audit write having succeeded, it returns
\* Denied with the policy's reason and the input state as final_state, and
\* the chain gained exactly one event carrying that Deny.
C16_PolicyCapabilityDenialIsDenied ==
    IsStep /\ RuleCapabilityDenied =>
        /\ ~Failed("CapabilityMissing")
        /\ ~Invoked("required_capabilities") /\ call.required = None
        /\ ~Invoked("propose") /\ call.proposed = None
        /\ state = call.state
        /\ Returned("Denied") \/ Failed("AuditWriteFailed")
        /\ Failed("AuditWriteFailed") <=> poisoned
        /\ Returned("Denied") =>
              /\ GainedOne
              /\ LastRecord.verdict = call.out.verdict
              /\ LastRecord.output = None
              /\ call.out.result.v.reason = call.out.verdict.reason
              /\ call.out.result.v.final_state = call.state

C16_Witness ==
    /\ IsStep /\ RuleCapabilityDenied /\ Returned("Denied")
    /\ call.out.policy_ctx.action = "read_phi"
    /\ ~has(call.caps, "phi:read") /\ has(call.caps, "rx:write")

\* C18: is_terminal is queried only after the step's record is written; the
\* step returns Complete, with the state transition produced and the output
\* propose produced, exactly when is_terminal is true of that state, and
\* then finalize was invoked, after the write; it returns Transitioned when
\* is_terminal is false, without finalize.  Finalize is not invoked on the
\* Denied, AwaitingApproval and error paths.
C18_FinalizeExactlyOnTerminal ==
    IsStep =>
        /\ Invoked("is_terminal") =>
              /\ Precedes("write", "is_terminal")
              /\ GainedOne
              /\ Returned("Complete") \/ Returned("Transitioned")
              /\ call.terminal.some /\ call.transitioned.some
              /\ Returned("Complete") <=> call.terminal.v
              /\ ReturnedState = call.transitioned.v.v
              /\ call.out.result.v.output = call.out.output.v
        /\ Returned("Complete") =>
              /\ Invocations("finalize") = 1
              /\ Precedes("write", "finalize")
              /\ Precedes("is_terminal", "finalize")
        /\ Returned("Transitioned") =>
              /\ Invoked("is_terminal") /\ ~Invoked("finalize")
        /\ Invoked("finalize") => Returned("Complete")
        /\ Returned("Denied") \/ Returned("AwaitingApproval") \/ ~call.out.result.ok
              => ~Invoked("finalize")

C18_Witness ==
    /\ IsStep /\ Returned("Complete") /\ Invoked("finalize")
    /\ Len(events) = 1

AuditPoint ==
    IF call.out.verdict.variant = "Deny" THEN "deny"
    ELSE IF call.out.verdict.variant = "RequireApproval" THEN "approval"
    ELSE IF Invoked("transition") THEN "completed"
    ELSE "capability"

\* C20: when audit.write fails, at whichever of the four audit points, step()
\* fails with AuditWriteFailed and returns none of its other results; a write
\* that fails, called from step() or directly, leaves events, sequence and
\* last_hash as it found them.
C20_FailedWriteAbortsTheStep ==
    /\ IsStep /\ Invoked("write") /\ poisoned =>
          /\ Failed("AuditWriteFailed")
          /\ AuditUnchanged
          /\ state = call.state
    /\ IsStep /\ Failed("AuditWriteFailed") => Invoked("write") /\ poisoned
    /\ call.op = "write" /\ ~call.ok => AuditUnchanged

C20_Witness ==
    /\ IsStep /\ Failed("AuditWriteFailed") /\ AuditPoint = "completed"
    /\ Len(events) = 1

\* ---------------------------------------------------------- frame claims

IsPrefix(shorter, longer) ==
    /\ Len(shorter) <= Len(longer)
    /\ SubSeq(longer, 1, Len(shorter)) = shorter

\* C21: the audit log is append-only: whatever the operation (step, write,
\* finalize, verify_integrity, export_log), the events before it are an
\* exact prefix of the events after it; no event is modified or removed.
C21_AppendOnly == [][IsPrefix(events, events')]_vars

C21_Witness ==
    /\ call.op \in {"finalize", "export_log", "verify_integrity"}
    /\ Len(events) = 2
    /\ events = call.before
    /\ events[1].record.verdict.variant = "Deny"

\* ----------------------------------------------------- concurrency claims

\* The threads inside a body that runs under the writer's lock.
InBody == {t \in Threads : pc(t) \in BodyPcs}

\* The thread's last operation has returned.
Finished(t, op) == ~Running(t) /\ threads[t].op = op

\* C22: under every interleaving of threads calling write (directly or from
\* step), finalize, verify_integrity and export_log on one writer, a write's
\* read, hash, push and advance run with no other thread inside a locked
\* body: no two events share a sequence number or a prev_hash, sequence
\* numbers count from 0, no finished write is missing from the chain, the
\* chain verifies whenever the lock is free, and every verify_integrity and
\* export_log that returned saw a chain that verifies.
C22_WritesAreAtomic ==
    /\ Cardinality(InBody) <= 1
    /\ \A t \in Threads : lock = Some(t) <=> t \in InBody
    /\ \A i, j \in 1..Len(events) :
          i # j => /\ events[i].sequence # events[j].sequence
                   /\ events[i].prev_hash # events[j].prev_hash
    /\ \A i \in 1..Len(events) : events[i].sequence = i - 1
    /\ \A t \in Threads :
          Finished(t, "write") =>
              \E i \in 1..Len(events) : events[i].record = threads[t].record.v
    /\ verify_chain(events)
    /\ lock = None =>
          /\ sequence = Len(events)
          /\ last_hash = IF events = <<>> THEN GENESIS_HASH
                         ELSE events[Len(events)].this_hash
    /\ \A t \in Threads :
          /\ Finished(t, "verify_integrity") => threads[t].ret.v
          /\ Finished(t, "export_log") =>
                /\ verify_chain(threads[t].ret.v.events)
                /\ IsPrefix(threads[t].ret.v.events, events)

C22_Witness ==
    /\ Len(events) = 2
    /\ events[1].record = make_record(0, <<"b">>, Utc_now(0))
    /\ events[2].record = make_record(0, <<"a">>, Utc_now(0))
    /\ lock = Some("a") /\ pc("a") = "write:commit"
    /\ pc("b") = "verify_integrity:lock"

\* C23: a thread inside step() holds the writer's lock only while it is
\* inside audit.write or audit.finalize, never while the agent, the policy
\* engine or the verifier runs; so while one thread sits in such a stage,
\* for as long as it likes, the lock is free or held by another thread that
\* is inside a locked body of the writer, and a write, export_log or
\* verify_integrity of another thread is never waiting for the agent.
C23_LockOnlyInsideWriterCalls ==
    \A t \in Threads :
        /\ lock = Some(t) => pc(t) \in BodyPcs
        /\ pc(t) \in CallbackStages =>
              /\ lock # Some(t)
              /\ \/ can_lock(lock)
                 \/ \E u \in Threads \ {t} : lock = Some(u) /\ pc(u) \in BodyPcs

C23_Witness ==
    /\ threads["a"].op = "step" /\ pc("a") = "propose"
    /\ threads["b"].op = "write" /\ pc("b") = "write:commit"
    /\ lock = Some("b")
    /\ Len(events) = 2
    /\ events[1].record.input = UserMessage

\* C24: export_log returns a snapshot: every event written so far, in
\* append order, under the writer's execution id, with terminal_hash the
\* this_hash of the last event or the empty string when there is none; the
\* exported events verify; and the writer's events, sequence and last_hash
\* are what they were before the call.
C24_ExportLogIsAFaithfulSnapshot ==
    (call.op = "export_log" /\ ~call.ret.panic) =>
        LET log == call.ret.log
        IN /\ log.events = call.before
           /\ \A i \in 1..Len(log.events) : log.events[i].sequence = i - 1
           /\ log.execution_id = WriterExecutionId
           /\ log.terminal_hash =
                 IF call.before = <<>> THEN <<>>
                 ELSE call.before[Len(call.before)].this_hash
           /\ verify_chain(log.events)
           /\ events = call.before
           /\ sequence = call.sequence
           /\ last_hash = call.last_hash

C24_Witness ==
    /\ call.op = "export_log" /\ ~call.ret.panic
    /\ Len(call.ret.log.events) = 2
    /\ call.ret.log.terminal_hash = events[2].this_hash
    /\ call.ret.log.events[1].record.verdict.variant = "RequireApproval"

\* --------------------------------------------------------- verifier claims

\* The positions of the schema's rules that fail on the payload.
FailingRules(custom, rules, payload) ==
    {i \in 1..Len(rules) : failure_msg(custom, rules[i].rule_type, payload).some}

\* The k-th smallest member of a set of positions.
Nth(positions, k) ==
    CHOOSE i \in positions : Cardinality({j \in positions : j <= i}) = k

\* C25: verify evaluates every semantic rule and collects every failure:
\* the report holds the json-schema failures first, then exactly one
\* failure for each failing rule, in the order the rules are declared, each
\* carrying that rule's rule_id and message; and passed is true exactly
\* when the failure list is empty.
C25_VerifyCollectsAllFailures ==
    call.op = "verify" =>
        LET rules == executor_schema.rules
            payload == call.output.payload
            failures == call.report.failures
            structural == IF is_null(executor_schema.json_schema) THEN 0
                          ELSE Len(call.schema_errors)
            failing == FailingRules(verifier, rules, payload)
        IN /\ Len(failures) = structural + Cardinality(failing)
           /\ \A k \in 1..Len(failures) :
                 IF k <= structural
                 THEN /\ failures[k].rule_id = "json-schema"
                      /\ failures[k].message = call.schema_errors[k]
                 ELSE k - structural <= Cardinality(failing) =>
                      LET i == Nth(failing, k - structural)
                      IN /\ failures[k].rule_id = rules[i].rule_id
                         /\ Some(failures[k].message) =
                               failure_msg(verifier, rules[i].rule_type, payload)
           /\ call.report.passed <=> failures = <<>>

C25_Witness ==
    /\ call.op = "verify"
    /\ ~call.report.passed
    /\ Len(executor_schema.rules) = 2
    /\ Len(call.report.failures) = 4
    /\ call.report.failures[2].rule_id = "json-schema"
    /\ call.report.failures[3].rule_id = "custom-pii"
    /\ call.report.failures[4].rule_id = "req-patient-id"

\* ------------------------------------------------------ capability claims

\* The names has() is asked about: those that can be granted and one that
\* never is.
ProbedNames == CapabilityNames \cup {"audit:write"}

\* C26: CapabilitySet is a set of names.  A new set holds nothing; grant(c)
\* makes has(c) true and changes has() for no other name, so granting a held
\* name changes nothing and nothing is ever removed; and no other operation
\* changes what has() answers.
C26_CapabilitySetIsASet ==
    /\ \A n \in ProbedNames : ~has(capabilities, n)
    /\ [][IF call'.op = "grant"
          THEN \A n \in ProbedNames :
                  has(capabilities', n) <=> (n = call'.name \/ has(capabilities, n))
          ELSE \A n \in ProbedNames :
                  has(capabilities', n) <=> has(capabilities, n)]_vars

C26_Witness ==
    /\ call.op = "grant"
    /\ has(call.caps, call.name)
    /\ call.name = "phi:read"
    /\ has(capabilities, "rx:write") /\ has(capabilities, "phi:read")
    /\ ~has(capabilities, "audit:write")

\* ------------------------------------------------------- stage-order claims

\* The stages of step() in the order of the code.
StageOrder ==
    <<"describe_action", "evaluate", "required_capabilities", "propose", "verify",
      "transition", "write", "is_terminal", "finalize">>

StagePosition(name) == CHOOSE k \in 1..Len(StageOrder) : StageOrder[k] = name

\* The verifier's report on the output proposed in the last step().
ReportPassed == verify(CustomRules, call.out.output.v, Schema, <<>>).passed

\* C27 as stated: every stage, audit.write included, is invoked only if
\* every stage before it in the order was invoked: the stages a step() ran
\* are a prefix of the order.
C27_EveryStageAfterAllEarlierStages ==
    IsStep =>
        /\ IsPrefix(call.out.trace, StageOrder)
        /\ Invoked("transition") => ReportPassed
        /\ Invoked("write") => call.transitioned.some /\ call.transitioned.v.ok

\* C27 as amended: the stages run in the fixed order, each at most once;
\* every stage other than audit.write is invoked only if every earlier stage
\* was invoked and did not end the step; audit.write is either the
\* completed-step write, after transition succeeded, or the last stage of a
\* step that policy.evaluate ended with Deny or RequireApproval or that the
\* capability check ended; transition is invoked only after a passing
\* report.
C27_StagesRunInFixedOrder ==
    IsStep =>
        LET trace == call.out.trace
            n == Len(trace)
        IN /\ \A k \in 1..Len(StageOrder) : Invocations(StageOrder[k]) <= 1
           /\ \A i, j \in 1..n :
                 i < j => StagePosition(trace[i]) < StagePosition(trace[j])
           /\ \A k \in 1..n : trace[k] # "write" => trace[k] = StageOrder[k]
           /\ Invoked("required_capabilities") =>
                 call.out.verdict.variant \in {"Allow", "RequireVerification"}
           /\ Invoked("propose") =>
                 \A i \in 1..Len(call.required.v) :
                     has(call.caps, call.required.v[i])
           /\ Invoked("verify") => call.proposed.v.ok
           /\ Invoked("transition") => ReportPassed
           /\ Invoked("write") =>
                 \/ /\ trace[n] = "write" /\ n = 3
                    /\ call.out.verdict.variant \in {"Deny", "RequireApproval"}
                 \/ /\ trace[n] = "write" /\ n = 4
                    /\ \E i \in 1..Len(call.required.v) :
                          ~has(call.caps, call.required.v[i])
                 \/ /\ n >= 7 /\ trace[7] = "write"
                    /\ call.transitioned.some /\ call.transitioned.v.ok
           /\ Invoked("is_terminal") => ~poisoned /\ GainedOne
           /\ Invoked("finalize") => call.terminal.v

C27_Witness ==
    /\ IsStep
    /\ call.out.trace = StageOrder
    /\ Len(call.before) = 1
    /\ call.before[1].record.verdict.variant = "Deny"
    /\ call.before[1].record.input = UserMessage

\* --------------------------------------------- RequireVerification claims

\* The writer as the last step() found it.
WriterBefore ==
    [events |-> call.before, sequence |-> Len(call.before),
     last_hash |-> IF call.before = <<>> THEN GENESIS_HASH
                   ELSE call.before[Len(call.before)].this_hash]

\* The last step() from its match on, for an agent and a verdict.
Rerun(agent, verdict) ==
    step_from_verdict(agent, call.state, call.input, call.caps, WriterBefore,
                      poisoned, Utc_now(Len(call.before)), call.out.policy_ctx,
                      verdict, <<"describe_action", "evaluate">>)

\* The agents that describe the action and resource of the last step().
SameRequest ==
    {a \in Agents : /\ a.action = call.out.policy_ctx.action
                    /\ a.resource = call.out.policy_ctx.resource}

\* Two runs made the same calls and returned the same result, and their
\* audit chains differ at most in the verdict recorded by the last event
\* (and so in its hash).
SameButVerdict(one, other) ==
    /\ one.trace = other.trace
    /\ one.result = other.result
    /\ one.output = other.output
    /\ one.st.sequence = other.st.sequence
    /\ Len(one.st.events) = Len(other.st.events)
    /\ \A i \in 1..Len(one.st.events) :
          LET e == one.st.events[i]
              f == other.st.events[i]
          IN /\ e.sequence = f.sequence
             /\ e.execution_id = f.execution_id
             /\ e.prev_hash = f.prev_hash
             /\ e.record.step = f.record.step
             /\ e.record.input = f.record.input
             /\ e.record.output = f.record.output
             /\ e.record.timestamp = f.record.timestamp
             /\ \/ e.record.verdict = f.record.verdict
                \/ /\ i = Len(one.st.events)
                   /\ e.record.verdict = one.verdict
                   /\ f.record.verdict = other.verdict

StepWrote == IsStep /\ events # call.before

\* C29: a record written by step() carries the step counter of the state
\* the step was given and the step's input; its output is absent exactly
\* when it records a Deny, a RequireApproval or a missing capability, and
\* present exactly when it records a completed step, whose verdict is then
\* the policy's own Allow or RequireVerification and whose output is the one
\* proposed; no record holds a Deny or RequireApproval together with an
\* output.
C29_RecordFieldsMatchTheStep ==
    StepWrote =>
        LET completed == Invoked("transition")
            ended_early ==
                \/ call.out.verdict.variant \in {"Deny", "RequireApproval"}
                \/ /\ call.required.some
                   /\ \E i \in 1..Len(call.required.v) :
                         ~has(call.caps, call.required.v[i])
        IN /\ GainedOne
           /\ LastRecord.step = call.state.step
           /\ LastRecord.input = call.input
           /\ LastRecord.output = None <=> ended_early
           /\ LastRecord.output # None <=> completed
           /\ completed =>
                 /\ LastRecord.output = call.out.output
                 /\ LastRecord.verdict = call.out.verdict
                 /\ LastRecord.verdict.variant \in {"Allow", "RequireVerification"}
           /\ ended_early => LastRecord.verdict.variant \in {"Deny", "RequireApproval"}
           /\ \A i \in 1..Len(events) :
                 events[i].record.verdict.variant \in {"Deny", "RequireApproval"}
                     => events[i].record.output = None

C29_Witness ==
    /\ StepWrote /\ Returned("Transitioned")
    /\ call.state.step = 1
    /\ LastRecord.step = 1
    /\ LastRecord.output = Some(GoodOutput)
    /\ events[1].record.step = 0

\* The names in a list.
Names(list) == {list[i] : i \in 1..Len(list)}

\* C30: step() never elevates privileges.  The capability set after the
\* call is the set before it; the capabilities list of the policy context
\* holds exactly the names held at the call, each once, whatever earlier
\* steps or rule matches there were; and the executor's own check consults
\* that same set: propose is reached exactly when every declared capability
\* is in it.
C30_StepNeverElevates ==
    IsStep =>
        /\ capabilities = call.caps
        /\ Names(call.out.policy_ctx.capabilities) = call.caps
        /\ Len(call.out.policy_ctx.capabilities) = Cardinality(call.caps)
        /\ \A n \in ProbedNames :
              contains(call.out.policy_ctx.capabilities, n) <=> has(call.caps, n)
        /\ call.required.some =>
              (Invoked("propose") <=>
                  \A i \in 1..Len(call.required.v) :
                      has(call.caps, call.required.v[i]))

C30_Witness ==
    /\ IsStep
    /\ call.caps = {"phi:read"}
    /\ call.out.policy_ctx.capabilities = <<"phi:read">>
    /\ call.out.verdict.variant = "Allow"
    /\ Failed("CapabilityMissing")
    /\ call.out.result.e.capability = "rx:write"
    /\ Len(call.before) = 1

\* ----------------------------------------------------------- finalize claims

\* C31: finalize has no effect on the audit state: whatever execution id it
\* is given, the writer's own or another, and however often it is called,
\* events, sequence and last_hash after the call are those before it, and so
\* are the answers of verify_integrity and the events of export_log.
C31_FinalizeHasNoEffect ==
    [][call'.op = "finalize" =>
          /\ events' = events
          /\ sequence' = sequence
          /\ last_hash' = last_hash
          /\ verify_chain(events') = verify_chain(events)
          /\ ~poisoned =>
                export_log([events |-> events', sequence |-> sequence',
                            last_hash |-> last_hash'], FALSE, Utc_now(0)).log.events
                = export_log(InMemoryState, FALSE, Utc_now(0)).log.events]_vars

C31_Witness ==
    /\ call.op = "finalize" /\ call.ok
    /\ call.execution_id = "exec-other"
    /\ Len(events) = 2 /\ sequence = 2
    /\ events[2].record.verdict.variant = "RequireApproval"

\* ------------------------------------------------------- rule-type claims

\* The failures the last verify() reported under a rule id.
FailuresOf(rule_id) ==
    {k \in 1..Len(call.report.failures) : call.report.failures[k].rule_id = rule_id}

\* The rules of the schema of a given type.
RulesOfKind(kind) ==
    {i \in 1..Len(executor_schema.rules) :
        executor_schema.rules[i].rule_type.kind = kind}

\* Following the segments from a value reaches a value that is not null,
\* through members that are present and not null.
RECURSIVE Resolves(_, _)
Resolves(v, segments) ==
    \/ segments = <<>>
    \/ /\ v.t = "obj"
       /\ Head(segments) \in DOMAIN v.o
       /\ v.o[Head(segments)].t # "null"
       /\ Resolves(v.o[Head(segments)], Tail(segments))

\* The value the segments lead to, when they resolve.
RECURSIVE ValueAt(_, _)
ValueAt(v, segments) ==
    IF segments = <<>> THEN v ELSE ValueAt(v.o[Head(segments)], Tail(segments))

\* The dotted paths of the rules, cut at the dots.
SegmentsOf(path) ==
    CASE path = IdKey -> <<IdKey>>
      [] path = <<"p", ".", "i", "d">> -> <<PatientKey, IdKey>>
      [] path = StatusKey -> <<StatusKey>>
      [] path = SumKey -> <<SumKey>>

\* C32: resolve_path cuts the path at the dots and walks the payload one
\* segment at a time; it is unresolved as soon as a segment is missing or
\* its value is null, at the end or on the way, and otherwise it is the
\* value at the end of the path.  A RequiredField rule fails exactly when
\* its path is unresolved.
C32_RequiredFieldFailsIffUnresolved ==
    call.op = "verify" =>
        \A i \in RulesOfKind("RequiredField") :
            LET rule == executor_schema.rules[i]
                path == rule.rule_type.field_path
                payload == call.output.payload
                resolved == Resolves(payload, SegmentsOf(path))
            IN /\ split(path) = SegmentsOf(path)
               /\ resolve_path(payload, path) =
                     IF resolved THEN Some(ValueAt(payload, SegmentsOf(path)))
                     ELSE None
               /\ FailuresOf(rule.rule_id) # {} <=> ~resolved
               /\ \A k \in FailuresOf(rule.rule_id) :
                     call.report.failures[k].message =
                         <<"required field '", path, "' is missing or null">>

C32_Witness ==
    /\ call.op = "verify"
    /\ call.output.payload = JObj(PatientKey :> JNull)
    /\ executor_schema.rules =
          <<VerificationRule("req-patient-id", RequiredField(<<"p", ".", "i", "d">>)),
            VerificationRule("req-id", RequiredField(IdKey))>>
    /\ Len(call.report.failures) = 2

\* The pattern occurs in the string as a run of consecutive characters.
IsSubstring(pattern, s) ==
    \E start \in 1..(Len(s) + 1) :
        /\ start + Len(pattern) - 1 <= Len(s)
        /\ SubSeq(s, start, start + Len(pattern) - 1) = pattern

\* C33: the two value rules treat an unresolved path differently.  An
\* AllowedValues rule fails when its path is unresolved and when the value
\* equals no member of the allowed list, and passes otherwise; a
\* ForbiddenPattern rule passes when its path is unresolved or leads to a
\* value that is not a string, and fails exactly when the value is a string
\* that contains the pattern.
C33_ValueRulesTreatUnresolvedDifferently ==
    call.op = "verify" =>
        LET payload == call.output.payload
        IN /\ \A i \in RulesOfKind("AllowedValues") :
                LET rule == executor_schema.rules[i]
                    segments == SegmentsOf(rule.rule_type.field_path)
                    resolved == Resolves(payload, segments)
                    allowed == Names(rule.rule_type.allowed)
                IN FailuresOf(rule.rule_id) # {} <=>
                      (~resolved \/ ValueAt(payload, segments) \notin allowed)
           /\ \A i \in RulesOfKind("ForbiddenPattern") :
                LET rule == executor_schema.rules[i]
                    segments == SegmentsOf(rule.rule_type.field_path)
                    resolved == Resolves(payload, segments)
                IN FailuresOf(rule.rule_id) # {} <=>
                      /\ resolved
                      /\ ValueAt(payload, segments).t = "str"
                      /\ IsSubstring(rule.rule_type.pattern,
                                     ValueAt(payload, segments).s)

C33_Witness ==
    /\ call.op = "verify"
    /\ call.output = GoodOutput
    /\ executor_schema.rules =
          <<VerificationRule("no-ssn", ForbiddenPattern(SumKey, PiiLabel)),
            VerificationRule("allowed-status",
                             AllowedValues(StatusKey, <<JStr(<<"o", "k">>)>>))>>
    /\ Len(call.report.failures) = 1
    /\ call.report.failures[1].rule_id = "allowed-status"

\* C34: a Custom rule is resolved by name when verify runs.  A name that is
\* not registered fails with a message naming the function; a registered
\* function is called with the whole payload and the rule fails exactly
\* when it returns a message, which becomes the failure's message.
\* Registering a name binds it to the function given, replacing any
\* function bound before, and changes no other name; nothing but
\* register_rule changes the registry.
C34_CustomRulesResolveByNameLastWins ==
    /\ [](call.op = "verify" =>
            \A i \in RulesOfKind("Custom") :
                LET rule == executor_schema.rules[i]
                    name == rule.rule_type.function_name
                    failed == FailuresOf(rule.rule_id)
                IN IF name \notin DOMAIN verifier
                   THEN /\ failed # {}
                        /\ \A k \in failed :
                              call.report.failures[k].message =
                                  <<"no custom rule registered for function name '",
                                    name, "'">>
                   ELSE LET answer == call_custom(verifier[name], call.output.payload)
                        IN /\ failed # {} <=> answer.some
                           /\ \A k \in failed :
                                 call.report.failures[k].message = answer.v)
    /\ [][IF call'.op = "register_rule"
          THEN /\ DOMAIN verifier' = DOMAIN verifier \cup {call'.name}
               /\ verifier'[call'.name] = call'.f
               /\ \A n \in DOMAIN verifier \ {call'.name} : verifier'[n] = verifier[n]
          ELSE verifier' = verifier]_vars

C34_Witness ==
    /\ call.op = "register_rule"
    /\ call.name = "no-pii-labels"
    /\ call.replaced = Some("no_pii_labels")
    /\ call.f = "always_fail"
    /\ verifier["no-pii-labels"] = "always_fail"
    /\ "dose-check" \notin DOMAIN verifier

\* ------------------------------------------------------ transition claims

LaterSatisfied ==
    {j \in Matching :
        /\ j > FirstMatchIndex
        /\ HoldsRequired(policy[j], call.ctx)
        /\ policy[j].verdict # "deny"}

\* C36: a missing rule-level capability does not fall through.  When the
\* first matching rule requires a capability the context lacks, evaluate
\* returns the Deny that names that rule, although a later rule matches
\* too, has all it requires, and would allow, suspend or ask verification.
C36_MissingCapabilityDoesNotFallThrough ==
    (/\ IsEvaluate /\ Matching # {}
     /\ ~HoldsRequired(FirstMatch, call.ctx)
     /\ LaterSatisfied # {}) =>
        /\ call.ret.variant = "Deny"
        /\ Len(call.ret.reason) = 7
        /\ call.ret.reason[2] = FirstMatch.id
        /\ call.ret.reason[3] = "' requires capability '"
        /\ \A j \in LaterSatisfied : call.ret # rule_verdict(policy[j])

C36_Witness ==
    /\ IsEvaluate /\ Len(policy) = 2
    /\ policy[1].id = "two-caps" /\ policy[2].id = "any-allow"
    /\ call.ctx.capabilities = <<"phi:read">>
    /\ LaterSatisfied = {2}
    /\ call.ret.variant = "Deny"

\* The capability lists a context can carry: the names of any set, in any
\* order.
CapabilityLists == UNION {all(held) : held \in SUBSET ProbedNames}

\* C37: granting more capabilities never revokes a verdict that lets the
\* action go on.  When evaluate returns Allow, RequireApproval or
\* RequireVerification for a context, it returns the same verdict for the
\* same rule list, action and resource with any capability list that holds
\* all the names of the first.
C37_MoreCapabilitiesNeverRevoke ==
    IsEvaluate /\ call.ret.variant \in {"Allow", "RequireApproval", "RequireVerification"} =>
        \A more \in CapabilityLists :
            Names(call.ctx.capabilities) \subseteq Names(more) =>
                evaluate(policy, [call.ctx EXCEPT !.capabilities = more]) = call.ret

C37_Witness ==
    /\ IsEvaluate /\ call.ret = Allow
    /\ call.ctx.capabilities = <<"phi:read">>
    /\ Len(policy) = 2
    /\ policy[1].id = "lit-allow" /\ policy[2].id = "any-deny"

\* Contexts that agree with the evaluated one on action, resource and the
\* names of the capabilities, and differ in anything else.
SameRequestContexts ==
    {[call.ctx EXCEPT !.agent_id = a, !.execution_id = e, !.current_phase = ph,
                      !.metadata = m, !.capabilities = c] :
        a \in {"test-agent", "admin-agent"},
        e \in {WriterExecutionId, "exec-other"},
        ph \in Phases,
        m \in {JNull, JObj(TextKey :> JStr(<<"h", "i">>))},
        c \in all(Names(call.ctx.capabilities))}

\* C38: the variant of the verdict depends on the action, the resource and
\* the capability names only.  A context that differs in agent_id,
\* execution_id, current_phase, metadata or the order of its capabilities
\* gets the same verdict, except that the reason of a missing-capability
\* Deny cites the agent id of the context it was given.
C38_VerdictDependsOnRequestOnly ==
    IsEvaluate =>
        \A other \in SameRequestContexts :
            LET ret == evaluate(policy, other)
            IN /\ ret.variant = call.ret.variant
               /\ \/ ret = call.ret
                  \/ /\ ret.variant = "Deny"
                     /\ Len(ret.reason) = 7 /\ Len(call.ret.reason) = 7
                     /\ ret.reason[3] = "' requires capability '"
                     /\ \A k \in (1..7) \ {6} : ret.reason[k] = call.ret.reason[k]
                     /\ ret.reason[6] = other.agent_id
                     /\ call.ret.reason[6] = call.ctx.agent_id

C38_Witness ==
    /\ IsEvaluate /\ call.ret.variant = "Deny"
    /\ Len(call.ret.reason) = 7
    /\ call.ret.reason[6] = "test-agent"
    /\ call.ret.reason[4] = "rx:write"
    /\ call.ctx.capabilities = <<"phi:read">>
    /\ Matching # {} /\ FirstMatch.id = "two-caps"

\* ----------------------------------------------------- truncation claims

\* The chain cut after its first k events.
Truncated(evs, k) == SubSeq(evs, 1, k)

\* The terminal hash export_log gives for a chain.
TerminalHash(evs) == IF evs = <<>> THEN <<>> ELSE evs[Len(evs)].this_hash

\* C39: verify_chain accepts every prefix of a chain it accepts: with any
\* number of events removed from the end, all of them too, it still returns
\* true; the terminal_hash of export_log is what tells them apart, being
\* different for every proper prefix.
C39_VerifyChainAcceptsPrefixes ==
    verify_chain(events) =>
        \A k \in 0..Len(events) :
            /\ verify_chain(Truncated(events, k))
            /\ k < Len(events) =>
                  TerminalHash(Truncated(events, k))
                      # export_log(InMemoryState, FALSE, Utc_now(0)).log.terminal_hash

C39_Witness ==
    /\ call.op = "export_log" /\ ~call.ret.panic
    /\ Len(events) = 2
    /\ verify_chain(events)
    /\ verify_chain(Truncated(events, 1))
    /\ call.ret.log.terminal_hash # TerminalHash(Truncated(events, 1))

\* ------------------------------------------------------- after completion

\* The caller holds a terminal state: an earlier step() returned Complete,
\* after calling finalize.
AfterComplete(st) == st.phase = "complete"

\* The last event carries the next dense sequence number and is linked to
\* the event before it.
LastEventIsNext ==
    /\ events[Len(events)].sequence = Len(events) - 1
    /\ events[Len(events)].prev_hash =
          IF Len(events) = 1 THEN GENESIS_HASH
          ELSE events[Len(events) - 1].this_hash

\* C40: finalize does not seal the log and the executor keeps no completed
\* state.  A step() given the state of a completed execution runs the
\* pipeline as any other step does, each stage following when the one
\* before it did not end the step; and a write() after completion is
\* accepted: it appends the event with the next sequence number, linked to
\* the last one, and the chain verifies.
C40_FinalizeDoesNotSeal ==
    /\ IsStep /\ AfterComplete(call.state) =>
          /\ Len(call.out.trace) >= 2
          /\ call.out.trace[1] = "describe_action"
          /\ call.out.trace[2] = "evaluate"
          /\ arm(call.out.verdict) = "continue" =>
                /\ Invoked("required_capabilities")
                /\ (\A i \in 1..Len(call.required.v) :
                        has(call.caps, call.required.v[i])) =>
                      /\ Invoked("propose")
                      /\ call.proposed.v.ok =>
                            /\ Invoked("verify")
                            /\ ReportPassed =>
                                  /\ Invoked("transition")
                                  /\ call.transitioned.v.ok => Invoked("write")
          /\ Invoked("write") /\ ~poisoned =>
                /\ GainedOne
                /\ LastEventIsNext
                /\ LastRecord.step = call.state.step
                /\ verify_chain(events)
          /\ Invoked("is_terminal") /\ call.terminal.v => Invoked("finalize")
    /\ call.op = "write" /\ AfterComplete(state) /\ ~poisoned =>
          /\ call.ok
          /\ GainedOne
          /\ LastRecord = call.record
          /\ LastEventIsNext
          /\ verify_chain(events)

C40_Witness ==
    /\ IsStep /\ AfterComplete(call.state)
    /\ Returned("Complete")
    /\ call.out.trace = StageOrder
    /\ Len(events) = 2
    /\ events[1].record.output # None
    /\ events[2].sequence = 1

====
